---- MODULE Spec2Model ----
(***************************************************************************)
(* Model of the alert engine of the health-care monitoring back end:       *)
(*   backend/alert-engine/app/alerts.py          (AlertEngine)             *)
(*   backend/alert-engine/app/main.py            (service operations)      *)
(*   backend/alert-engine/app/mongodb_client.py  (durable store client)    *)
(*                                                                         *)
(* Units: temperatures are in tenths of a degree Celsius (37.0 -> 370),    *)
(* every other vital is in its natural unit.  Time is a tick counter;      *)
(* every read of the wall clock returns a strictly larger tick.  A         *)
(* fixed-width run of digits that the code only copies and compares (the   *)
(* date of an id, the fields of an ISO timestamp) is kept as its number.   *)
(***************************************************************************)
EXTENDS Integers, Sequences, FiniteSets, TLC

VARIABLES
    active_alerts,   \* AlertEngine.active_alerts : patient id -> list of Alert
    alert_counter,   \* AlertEngine.alert_counter
    now,             \* the wall clock (datetime.now()), in ticks
    created,         \* history: ids handed out by this process, in creation order
    last,            \* history: the last operation, its arguments and its result
    db_set,          \* mongodb_client._db is not None
    client_set,      \* mongodb_client._client is not None
    mongo_up,        \* environment: the MongoDB server answers requests
    collection,      \* the durable alerts collection, in insertion order
    next_oid,        \* the next ObjectId the durable store assigns
    phase,           \* lifespan of the service: "constructed", "running", ...
    restarts,        \* history: process restarts so far
    poll,            \* the polling task: where it is suspended, and its locals
    es_up,           \* environment: the Elasticsearch server answers requests
    es_index,        \* the analytics index: ids of the alerts logged, in order
    writes,          \* history: the dual writes of the last step, in order
    calls,           \* history: analyze and acknowledge calls counted against the bounds
    warmup           \* scenario: the first warmup calls are six-alert readings of P001

vars == << active_alerts, alert_counter, now, created, last,
           db_set, client_set, mongo_up, collection, next_oid, phase, restarts,
           poll, es_up, es_index, writes, calls, warmup >>

engineVars == << active_alerts, alert_counter, now, created >>
mongoVars == << db_set, client_set, mongo_up, collection, next_oid >>
sinkVars == << es_up, es_index, writes >>

(***************************************************************************)
(* Bounds of the model.                                                    *)
(***************************************************************************)
MaxEngineCalls == 2       \* analyze_vitals calls of the engine specification after the warm-up
WarmUpBatches == 7        \* six-alert batches for P001 that a warm-up consists of
MaxServiceCalls == 2      \* analyze and acknowledge requests in the service specification
MaxRestarts == 1          \* process restarts in the restart specification
MaxRestartCalls == 1      \* analyze and acknowledge requests in the restart specification
MaxCycles == 2            \* fetches of the polling task in the poller specification
MaxSinkOps == 1           \* fetches and analyze requests together in the sinks specification
MaxConcurrentCycles == 1  \* fetches of the polling task in the concurrent specification
MaxConcurrentCalls == 1   \* analyze and acknowledge requests in the concurrent specification
MaxStoreCalls == 2        \* save_alert and acknowledge_alert calls in the store specification

(***************************************************************************)
(* Program constants.                                                      *)
(***************************************************************************)
HistoryCap == 50          \* self.active_alerts[patient_id][:50]
NumSeedPatients == 10     \* range(1, 11)
SeedsPerPatient == 5      \* range(5)
IdWidth == 5              \* {self.alert_counter:05d}
TicksPerMinute == 100
TicksPerDay == 144000     \* 1440 minutes

(***************************************************************************)
(* Settings (app.config): the thresholds the rules compare against.        *)
(***************************************************************************)
hr_high_critical == 150
hr_high_warning == 100
hr_low_warning == 60
hr_low_critical == 40
spo2_critical == 90
spo2_warning == 94
bp_systolic_critical == 180
bp_systolic_warning == 140
bp_systolic_low_critical == 90
temp_critical == 395
temp_warning == 380
temp_low_critical == 350
resp_high_critical == 30
resp_high_warning == 24
resp_low_critical == 8
\* low-warning boundaries named by the specification for temperature and
\* respiratory rate; no rule of alerts.py reads them
temp_low_warning == 360
resp_low_warning == 12

(***************************************************************************)
(* Strings are tuples of characters; formatting as Python does it.         *)
(***************************************************************************)
DigitChar == << "0", "1", "2", "3", "4", "5", "6", "7", "8", "9" >>

RECURSIVE Str(_)
\* str(n) for a natural number n
Str(n) == IF n < 10 THEN << DigitChar[n + 1] >>
          ELSE Str(n \div 10) \o << DigitChar[(n % 10) + 1] >>

RECURSIVE ZFill(_, _)
\* s.zfill(w): pads on the left with "0" up to width w, never truncates
ZFill(s, w) == IF Len(s) >= w THEN s ELSE ZFill(<< "0" >> \o s, w)

DigitValue(c) == CHOOSE d \in 0..9 : DigitChar[d + 1] = c

RECURSIVE ParseInt(_)
ParseInt(s) == IF s = << >> THEN 0
               ELSE 10 * ParseInt(SubSeq(s, 1, Len(s) - 1)) + DigitValue(s[Len(s)])

\* [f"P{str(i).zfill(3)}" for i in range(1, 11)]
patient_ids == << "P001", "P002", "P003", "P004", "P005",
                  "P006", "P007", "P008", "P009", "P010" >>

\* datetime.now().strftime('%Y%m%d'): the day
StrfDate(t) == t \div TicksPerDay

\* datetime.isoformat(): the day, then the time of day
IsoFormat(t) == << t \div TicksPerDay, t % TicksPerDay >>

\* a < b on two timestamps as Python compares the strings: field by field
StrLess(a, b) == a[1] < b[1] \/ (a[1] = b[1] /\ a[2] < b[2])

(***************************************************************************)
(* Python values of a reading: numbers, None, strings, mappings.           *)
(***************************************************************************)
Num(n) == [t |-> "num", v |-> n]
None == [t |-> "none", v |-> 0]
StrVal == [t |-> "str", v |-> 0]          \* some non-empty string
Dict(d) == [t |-> "dict", v |-> d]        \* d: a function from keys to values
EmptyDict == Dict(<< >>)

\* d.get(k, default) on a mapping d
Get(d, k, default) == IF k \in DOMAIN d THEN d[k] ELSE default

\* bool(x)
Truthy(x) ==
    CASE x.t = "num" -> x.v # 0
      [] x.t = "none" -> FALSE
      [] x.t = "str" -> TRUE
      [] x.t = "dict" -> DOMAIN x.v # {}

\* a or b
PyOr(a, b) == IF Truthy(a) THEN a ELSE b

IsNum(x) == x.t = "num"
\* x == 0 (never raises)
EqZero(x) == x.t = "num" /\ x.v = 0

(***************************************************************************)
(* Alerts.                                                                 *)
(***************************************************************************)
TACHYCARDIA == "Tachycardia Alert"
BRADYCARDIA == "Bradycardia Alert"
HYPOXIA == "Hypoxia Alert"
HYPERTENSIVE_CRISIS == "Hypertensive Crisis"
HYPOTENSION == "Hypotension Alert"
FEVER == "Fever Alert"
HYPOTHERMIA == "Hypothermia Alert"
TACHYPNEA == "Tachypnea Alert"
BRADYPNEA == "Bradypnea Alert"
SENSOR_DISCONNECT == "Sensor Disconnection"

CRITICAL == "critical"
WARNING == "warning"

\* the Alert model; acknowledged defaults to False
Alert(id, patient_id, type, message, severity, vital_type, vital_value, threshold, timestamp) ==
    [ id |-> id, patient_id |-> patient_id, type |-> type, message |-> message,
      severity |-> severity, vital_type |-> vital_type,
      vital_value |-> vital_value, threshold |-> threshold,
      timestamp |-> timestamp, acknowledged |-> FALSE ]

\* a rendered message: the template and the values substituted into it
Msg(template, args) == [template |-> template, args |-> args]

\* f"ALT-{datetime.now().strftime('%Y%m%d')}-{self.alert_counter:05d}"
FormatAlertId(t, counter) ==
    [prefix |-> "ALT", date |-> StrfDate(t), seq |-> ZFill(Str(counter), IdWidth)]

\* faulty variant of GenerateAlertId: the incremented counter is not stored
GenerateAlertIdStale(counter, t) ==
    [counter |-> counter, id |-> FormatAlertId(t, counter + 1)]

\* _generate_alert_id: the counter after the call and the id returned
GenerateAlertId(counter, t) ==
    [counter |-> counter + 1, id |-> FormatAlertId(t, counter + 1)]

\* the sequence number an id was rendered from
SeqOfId(id) == ParseInt(id.seq)

(***************************************************************************)
(* AlertEngine.analyze_vitals: extraction of the vitals.                   *)
(***************************************************************************)
\* lines 99-105; err: bp is no mapping, so bp.get raises AttributeError
ExtractVitals(vitals) ==
    LET bp == PyOr(Get(vitals, "bloodPressure", None),
                   Get(vitals, "blood_pressure", EmptyDict))
    IN  [ heart_rate |-> PyOr(Get(vitals, "heartRate", None),
                              Get(vitals, "heart_rate", Num(0))),
          spo2 |-> PyOr(Get(vitals, "spO2", None), Get(vitals, "spo2", Num(100))),
          err |-> bp.t # "dict",
          systolic |-> IF bp.t = "dict" THEN Get(bp.v, "systolic", Num(120)) ELSE None,
          diastolic |-> IF bp.t = "dict" THEN Get(bp.v, "diastolic", Num(80)) ELSE None,
          temperature |-> Get(vitals, "temperature", Num(370)),
          respiratory |-> PyOr(Get(vitals, "respiratory", None),
                               Get(vitals, "respiratory_rate", Num(16))) ]

(***************************************************************************)
(* The rules.  st = [alerts, counter, err]: the local list alerts, the     *)
(* engine's alert_counter and whether an exception has been raised.        *)
(***************************************************************************)
\* alerts.append(Alert(id=self._generate_alert_id(), ..., timestamp=timestamp))
\* an emit that puts the alert in front of the batch (faulty variant)
EmitInFront(st, t, patient_id, type, message, severity, vital_type, value, threshold) ==
    LET g == GenerateAlertId(st.counter, t)
    IN  [ alerts |-> << Alert(g.id, patient_id, type, message, severity,
                              vital_type, value, threshold, IsoFormat(t)) >> \o st.alerts,
          counter |-> g.counter,
          err |-> st.err ]

Emit(st, t, patient_id, type, message, severity, vital_type, value, threshold) ==
    LET g == GenerateAlertId(st.counter, t)
    IN  [ alerts |-> Append(st.alerts,
                            Alert(g.id, patient_id, type, message, severity,
                                  vital_type, value, threshold, IsoFormat(t))),
          counter |-> g.counter,
          err |-> st.err ]

\* a comparison of a non-number with a number raises TypeError
Raise(st) == [st EXCEPT !.err = TRUE]

\* faulty variant of HeartRateHigh: the critical test is strict
HeartRateHighStrict(st, t, p, x) ==
    IF st.err THEN st
    ELSE IF ~IsNum(x) THEN Raise(st)
    ELSE IF x.v > hr_high_critical
         THEN Emit(st, t, p, TACHYCARDIA,
                   Msg("Critical tachycardia detected. Heart rate: {} bpm (threshold: >{})",
                       << x.v, hr_high_critical >>),
                   CRITICAL, "heart_rate", x.v, hr_high_critical)
    ELSE IF x.v >= hr_high_warning
         THEN Emit(st, t, p, TACHYCARDIA,
                   Msg("Elevated heart rate detected: {} bpm (normal: 60-100)", << x.v >>),
                   WARNING, "heart_rate", x.v, hr_high_warning)
    ELSE st

\* lines 110-133
HeartRateHigh(st, t, p, x) ==
    IF st.err THEN st
    ELSE IF ~IsNum(x) THEN Raise(st)
    ELSE IF x.v >= hr_high_critical
         THEN Emit(st, t, p, TACHYCARDIA,
                   Msg("Critical tachycardia detected. Heart rate: {} bpm (threshold: >{})",
                       << x.v, hr_high_critical >>),
                   CRITICAL, "heart_rate", x.v, hr_high_critical)
    ELSE IF x.v >= hr_high_warning
         THEN Emit(st, t, p, TACHYCARDIA,
                   Msg("Elevated heart rate detected: {} bpm (normal: 60-100)", << x.v >>),
                   WARNING, "heart_rate", x.v, hr_high_warning)
    ELSE st

\* lines 135-158
HeartRateLow(st, t, p, x) ==
    IF st.err THEN st
    ELSE IF ~IsNum(x) THEN Raise(st)
    ELSE IF x.v <= hr_low_critical /\ x.v > 0
         THEN Emit(st, t, p, BRADYCARDIA,
                   Msg("Critical bradycardia detected. Heart rate: {} bpm (threshold: <{})",
                       << x.v, hr_low_critical >>),
                   CRITICAL, "heart_rate", x.v, hr_low_critical)
    ELSE IF x.v <= hr_low_warning /\ x.v > 0
         THEN Emit(st, t, p, BRADYCARDIA,
                   Msg("Low heart rate detected: {} bpm (normal: 60-100)", << x.v >>),
                   WARNING, "heart_rate", x.v, hr_low_warning)
    ELSE st


\* faulty variant of Spo2Low: the rule is skipped when an earlier rule has fired
Spo2LowSuppressed(st, t, p, x) ==
    IF st.err THEN st
    ELSE IF ~IsNum(x) THEN Raise(st)
    ELSE IF st.alerts # << >> THEN st
    ELSE IF x.v <= spo2_critical
         THEN Emit(st, t, p, HYPOXIA,
                   Msg("Critical hypoxia detected. SpO2: {}% (threshold: <{}%)",
                       << x.v, spo2_critical >>),
                   CRITICAL, "spo2", x.v, spo2_critical)
    ELSE IF x.v <= spo2_warning
         THEN Emit(st, t, p, HYPOXIA,
                   Msg("Low oxygen saturation detected: {}% (normal: >95%)", << x.v >>),
                   WARNING, "spo2", x.v, spo2_warning)
    ELSE st

\* lines 161-184
Spo2Low(st, t, p, x) ==
    IF st.err THEN st
    ELSE IF ~IsNum(x) THEN Raise(st)
    ELSE IF x.v <= spo2_critical
         THEN Emit(st, t, p, HYPOXIA,
                   Msg("Critical hypoxia detected. SpO2: {}% (threshold: <{}%)",
                       << x.v, spo2_critical >>),
                   CRITICAL, "spo2", x.v, spo2_critical)
    ELSE IF x.v <= spo2_warning
         THEN Emit(st, t, p, HYPOXIA,
                   Msg("Low oxygen saturation detected: {}% (normal: >95%)", << x.v >>),
                   WARNING, "spo2", x.v, spo2_warning)
    ELSE st

\* lines 187-210; the diastolic value is only rendered (a number, for a reading
\* whose systolic value is one)
SystolicHigh(st, t, p, x, d) ==
    IF st.err THEN st
    ELSE IF ~IsNum(x) THEN Raise(st)
    ELSE IF x.v >= bp_systolic_critical
         THEN Emit(st, t, p, HYPERTENSIVE_CRISIS,
                   Msg("Hypertensive crisis! BP: {}/{} mmHg (threshold: >{})",
                       << x.v, d.v, bp_systolic_critical >>),
                   CRITICAL, "blood_pressure", x.v, bp_systolic_critical)
    ELSE IF x.v >= bp_systolic_warning
         THEN Emit(st, t, p, HYPERTENSIVE_CRISIS,
                   Msg("Elevated blood pressure: {}/{} mmHg (normal: <140/90)",
                       << x.v, d.v >>),
                   WARNING, "blood_pressure", x.v, bp_systolic_warning)
    ELSE st

\* lines 212-223
SystolicLow(st, t, p, x, d) ==
    IF st.err THEN st
    ELSE IF ~IsNum(x) THEN Raise(st)
    ELSE IF x.v <= bp_systolic_low_critical /\ x.v > 0
         THEN Emit(st, t, p, HYPOTENSION,
                   Msg("Critical hypotension! BP: {}/{} mmHg (threshold: <{})",
                       << x.v, d.v, bp_systolic_low_critical >>),
                   CRITICAL, "blood_pressure", x.v, bp_systolic_low_critical)
    ELSE st

\* lines 226-249
TemperatureHigh(st, t, p, x) ==
    IF st.err THEN st
    ELSE IF ~IsNum(x) THEN Raise(st)
    ELSE IF x.v >= temp_critical
         THEN Emit(st, t, p, FEVER,
                   Msg("High fever detected: {}C (threshold: >{}C)", << x.v, temp_critical >>),
                   CRITICAL, "temperature", x.v, temp_critical)
    ELSE IF x.v >= temp_warning
         THEN Emit(st, t, p, FEVER,
                   Msg("Elevated temperature: {}C (normal: 36.1-37.2C)", << x.v >>),
                   WARNING, "temperature", x.v, temp_warning)
    ELSE st

\* lines 251-262
TemperatureLow(st, t, p, x) ==
    IF st.err THEN st
    ELSE IF ~IsNum(x) THEN Raise(st)
    ELSE IF x.v <= temp_low_critical /\ x.v > 0
         THEN Emit(st, t, p, HYPOTHERMIA,
                   Msg("Critical hypothermia: {}C (threshold: <{}C)",
                       << x.v, temp_low_critical >>),
                   CRITICAL, "temperature", x.v, temp_low_critical)
    ELSE st

\* lines 265-288
RespiratoryHigh(st, t, p, x) ==
    IF st.err THEN st
    ELSE IF ~IsNum(x) THEN Raise(st)
    ELSE IF x.v >= resp_high_critical
         THEN Emit(st, t, p, TACHYPNEA,
                   Msg("Critical tachypnea: {}/min (threshold: >{})",
                       << x.v, resp_high_critical >>),
                   CRITICAL, "respiratory_rate", x.v, resp_high_critical)
    ELSE IF x.v >= resp_high_warning
         THEN Emit(st, t, p, TACHYPNEA,
                   Msg("Elevated respiratory rate: {}/min (normal: 12-20)", << x.v >>),
                   WARNING, "respiratory_rate", x.v, resp_high_warning)
    ELSE st

\* faulty variant of RespiratoryLow: the test is strict
RespiratoryLowStrict(st, t, p, x) ==
    IF st.err THEN st
    ELSE IF ~IsNum(x) THEN Raise(st)
    ELSE IF x.v < resp_low_critical /\ x.v > 0
         THEN Emit(st, t, p, BRADYPNEA,
                   Msg("Critical bradypnea: {}/min (threshold: <{})",
                       << x.v, resp_low_critical >>),
                   CRITICAL, "respiratory_rate", x.v, resp_low_critical)
    ELSE st

\* lines 290-301
RespiratoryLow(st, t, p, x) ==
    IF st.err THEN st
    ELSE IF ~IsNum(x) THEN Raise(st)
    ELSE IF x.v <= resp_low_critical /\ x.v > 0
         THEN Emit(st, t, p, BRADYPNEA,
                   Msg("Critical bradypnea: {}/min (threshold: <{})",
                       << x.v, resp_low_critical >>),
                   CRITICAL, "respiratory_rate", x.v, resp_low_critical)
    ELSE st

\* lines 304-315
SensorDisconnect(st, t, p, hr, spo2) ==
    IF st.err THEN st
    ELSE IF EqZero(hr) \/ EqZero(spo2)
         THEN Emit(st, t, p, SENSOR_DISCONNECT,
                   Msg("Vital signs sensor may be disconnected. Check patient monitoring equipment.",
                       << >>),
                   WARNING, "sensor", 0, 0)
    ELSE st

\* lines 96-315: the rules in the order of the code
\* the rules in the order of the method, on the extracted vitals e; each
\* rule works on what the rules before it have left
ApplyRules(counter, t, p, e) ==
    CHOOSE st10 \in
      { SensorDisconnect(st9, t, p, e.heart_rate, e.spo2) : st9 \in
        { RespiratoryLow(st8, t, p, e.respiratory) : st8 \in
          { RespiratoryHigh(st7, t, p, e.respiratory) : st7 \in
            { TemperatureLow(st6, t, p, e.temperature) : st6 \in
              { TemperatureHigh(st5, t, p, e.temperature) : st5 \in
                { SystolicLow(st4, t, p, e.systolic, e.diastolic) : st4 \in
                  { SystolicHigh(st3, t, p, e.systolic, e.diastolic) : st3 \in
                    { Spo2Low(st2, t, p, e.spo2) : st2 \in
                      { HeartRateLow(st1, t, p, e.heart_rate) : st1 \in
                        { HeartRateHigh([alerts |-> << >>, counter |-> counter,
                                         err |-> e.err],
                                        t, p, e.heart_rate) } } } } } } } } } } : TRUE

Classify(counter, t, p, vitals) == ApplyRules(counter, t, p, ExtractVitals(vitals))

\* faulty variant of Take: s[-n:], the cap keeps the tail
TakeLast(s, n) == SubSeq(s, (IF Len(s) < n THEN 1 ELSE Len(s) - n + 1), Len(s))

\* s[:n]
Take(s, n) == SubSeq(s, 1, IF Len(s) < n THEN Len(s) ELSE n)

(***************************************************************************)
(* A Python dict keeps its keys in insertion order: active_alerts is the   *)
(* sequence of its items [key, alerts].                                    *)
(***************************************************************************)
Keys(d) == { d[i].key : i \in 1..Len(d) }
Has(d, k) == \E i \in 1..Len(d) : d[i].key = k
IndexOf(d, k) == CHOOSE i \in 1..Len(d) : d[i].key = k
\* d.get(k, [])
Lookup(d, k) == IF Has(d, k) THEN d[IndexOf(d, k)].alerts ELSE << >>
\* d[k] = v
Put(d, k, v) ==
    IF Has(d, k) THEN [d EXCEPT ![IndexOf(d, k)].alerts = v]
    ELSE Append(d, [key |-> k, alerts |-> v])
\* del d[k]
Del(d, k) ==
    LET i == IndexOf(d, k)
    IN  SubSeq(d, 1, i - 1) \o SubSeq(d, i + 1, Len(d))

\* faulty variant of Accumulate: the batch is added at the end of the history
AccumulateAppend(active, p, alerts) ==
    IF alerts = << >> THEN active
    ELSE LET base == IF Has(active, p) THEN active ELSE Put(active, p, << >>)
         IN  Put(base, p, SubSeq(Lookup(base, p) \o alerts, 1,
                                 IF Len(Lookup(base, p) \o alerts) < HistoryCap
                                 THEN Len(Lookup(base, p) \o alerts) ELSE HistoryCap))

\* faulty variant of Accumulate: the test "if alerts:" is missing
AccumulateUnguarded(active, p, alerts) ==
    LET base == IF Has(active, p) THEN active ELSE Put(active, p, << >>)
    IN  Put(base, p, SubSeq(alerts \o Lookup(base, p), 1,
                            IF Len(alerts \o Lookup(base, p)) < HistoryCap
                            THEN Len(alerts \o Lookup(base, p)) ELSE HistoryCap))

\* faulty variant of Accumulate: the batch replaces the history
AccumulateReplace(active, p, alerts) ==
    IF alerts = << >> THEN active
    ELSE Put(active, p, Take(alerts, HistoryCap))

\* lines 318-324: the store after a batch
Accumulate(active, p, alerts) ==
    IF alerts = << >> THEN active
    ELSE LET base == IF Has(active, p) THEN active ELSE Put(active, p, << >>)
         IN  Put(base, p, Take(alerts \o Lookup(base, p), HistoryCap))

\* analyze_vitals as a whole: the store and the counter after the call, the
\* list returned, and whether an exception left the method instead
Returned(active, p, st) ==
    [ active |-> IF st.err THEN active ELSE Accumulate(active, p, st.alerts),
      counter |-> st.counter,
      alerts |-> IF st.err THEN << >> ELSE st.alerts,
      made |-> st.alerts,
      raised |-> st.err ]

AnalyzeVitals(active, counter, t, p, vitals) ==
    Returned(active, p, Classify(counter, t, p, vitals))

\* get_patient_alerts
GetPatientAlerts(active, p) == Lookup(active, p)

\* the positions <<i, j>> of the alerts with this id, in iteration order
Matches(active, alert_id) ==
    UNION { { <<i, j>> : j \in { k \in 1..Len(active[i].alerts) :
                                   active[i].alerts[k].id = alert_id } } :
            i \in 1..Len(active) }

FirstMatch(active, alert_id) ==
    CHOOSE ij \in Matches(active, alert_id) :
        \A o \in Matches(active, alert_id) :
            ij[1] < o[1] \/ (ij[1] = o[1] /\ ij[2] <= o[2])

\* faulty variant of AcknowledgeAlert: every alert of the matching history is acknowledged
AcknowledgeHistory(active, alert_id) ==
    IF Matches(active, alert_id) = {} THEN [active |-> active, found |-> FALSE]
    ELSE LET ij == FirstMatch(active, alert_id)
         IN  [ active |-> [active EXCEPT ![ij[1]].alerts =
                              [ j \in 1..Len(@) |-> [@[j] EXCEPT !.acknowledged = TRUE] ]],
               found |-> TRUE ]

\* acknowledge_alert: the store after the call and the value returned
AcknowledgeAlert(active, alert_id) ==
    IF Matches(active, alert_id) = {} THEN [active |-> active, found |-> FALSE]
    ELSE LET ij == FirstMatch(active, alert_id)
         IN  [ active |-> [active EXCEPT ![ij[1]].alerts[ij[2]].acknowledged = TRUE],
               found |-> TRUE ]

\* clear_patient_alerts
\* a clear that empties the whole store (faulty variant)
ClearEveryPatient(active, p) == IF Has(active, p) THEN << >> ELSE active

ClearPatientAlerts(active, p) == IF Has(active, p) THEN Del(active, p) ELSE active

(***************************************************************************)
(* Construction of the engine: _seed_initial_alerts.                       *)
(***************************************************************************)
\* alert_templates: type, message, vital_type, severity, low and high value
alert_templates ==
    << [type |-> TACHYCARDIA, message |-> "Elevated heart rate detected: {value} bpm",
        vital_type |-> "heart_rate", severity |-> WARNING, lo |-> 75, hi |-> 130],
       [type |-> HYPOXIA, message |-> "Low oxygen saturation: {value}%",
        vital_type |-> "spo2", severity |-> WARNING, lo |-> 88, hi |-> 94],
       [type |-> HYPERTENSIVE_CRISIS, message |-> "Elevated blood pressure: {value}/90 mmHg",
        vital_type |-> "blood_pressure", severity |-> WARNING, lo |-> 140, hi |-> 175],
       [type |-> FEVER, message |-> "Elevated temperature: {value}C",
        vital_type |-> "temperature", severity |-> WARNING, lo |-> 380, hi |-> 395],
       [type |-> TACHYPNEA, message |-> "Elevated respiratory rate: {value}/min",
        vital_type |-> "respiratory_rate", severity |-> WARNING, lo |-> 24, hi |-> 28],
       [type |-> BRADYCARDIA, message |-> "Low heart rate detected: {value} bpm",
        vital_type |-> "heart_rate", severity |-> CRITICAL, lo |-> 42, hi |-> 55] >>

\* Outcomes of the random draws of one patient's seeds: for each seed the
\* template (random.choice), the value (random.uniform, here an end of the
\* range) and the age in minutes (random.randint(1, 30)).
SeedDraws ==
    { << [tpl |-> 1, high |-> FALSE, minutes |-> 30], [tpl |-> 2, high |-> TRUE, minutes |-> 20],
         [tpl |-> 3, high |-> FALSE, minutes |-> 10], [tpl |-> 4, high |-> TRUE, minutes |-> 5],
         [tpl |-> 5, high |-> FALSE, minutes |-> 1] >>,
      << [tpl |-> 6, high |-> TRUE, minutes |-> 1], [tpl |-> 1, high |-> TRUE, minutes |-> 5],
         [tpl |-> 1, high |-> FALSE, minutes |-> 10], [tpl |-> 4, high |-> FALSE, minutes |-> 20],
         [tpl |-> 2, high |-> FALSE, minutes |-> 30] >>,
      << [tpl |-> 1, high |-> TRUE, minutes |-> 7], [tpl |-> 1, high |-> TRUE, minutes |-> 7],
         [tpl |-> 1, high |-> TRUE, minutes |-> 7], [tpl |-> 1, high |-> TRUE, minutes |-> 7],
         [tpl |-> 1, high |-> TRUE, minutes |-> 7] >> }

\* the draws of the patients P002..P010
OtherDraw == CHOOSE d \in SeedDraws : d[1].tpl = 6

\* lines 77-91: the k-th alert of the process (k = 1, 2, ...), created at tick t
SeedAlert(patient_id, draw, k, t) ==
    LET tp == alert_templates[draw.tpl]
        value == IF draw.high THEN tp.hi ELSE tp.lo
    IN  Alert(GenerateAlertId(k - 1, t).id, patient_id, tp.type,
              Msg(tp.message, << value >>), tp.severity, tp.vital_type, value, tp.lo,
              IsoFormat(t - draw.minutes * TicksPerMinute))

\* lines 62-92: the store after construction at tick t0, patient 1 drawing d
SeedInitialAlerts(t0, d) ==
    [ i \in 1..NumSeedPatients |->
        [ key |-> patient_ids[i],
          alerts |-> [ j \in 1..SeedsPerPatient |->
                         LET k == (i - 1) * SeedsPerPatient + j
                         IN  SeedAlert(patient_ids[i], (IF i = 1 THEN d ELSE OtherDraw)[j],
                                       k, t0 + k) ] ] ]

NumSeeds == NumSeedPatients * SeedsPerPatient

\* the ids of a list of alerts
IdsOf(alerts) == [ i \in 1..Len(alerts) |-> alerts[i].id ]

RECURSIVE Flatten(_)
Flatten(d) == IF d = << >> THEN << >> ELSE Head(d).alerts \o Flatten(Tail(d))

NoCall == [op |-> "none", arg |-> << >>, ret |-> << >>, raised |-> FALSE]

\* the instants the process may start at: mid-day, and five minutes past midnight
Midday == TicksPerDay + 720 * TicksPerMinute
AfterMidnight == TicksPerDay + 5 * TicksPerMinute
StartClocks == { Midday, AfterMidnight }

\* the engine right after AlertEngine() at tick t0
Constructed(t0, d) ==
    [ active |-> SeedInitialAlerts(t0, d),
      counter |-> NumSeeds,
      now |-> t0 + NumSeeds,
      created |-> IdsOf(Flatten(SeedInitialAlerts(t0, d))) ]

\* one analyze_vitals call on the engine e: the clock is read, the rules run
Stepped(e, t, r) ==
    [ active |-> r.active,
      counter |-> r.counter,
      now |-> t,
      created |-> e.created \o IdsOf(r.made),
      alerts |-> r.alerts,
      raised |-> r.raised ]

EngineStep(e, p, vitals) ==
    Stepped(e, e.now + 1, AnalyzeVitals(e.active, e.counter, e.now + 1, p, vitals))

\* the engine as it stands
Engine == [active |-> active_alerts, counter |-> alert_counter, now |-> now, created |-> created]

S1 == "S1"
EngineSubjects == { patient_ids[1], S1 }

\* readings: no alert; one alert; six alerts
ReadingNormal == [heart_rate |-> Num(72)]
ReadingOne == [heart_rate |-> Num(182), spo2 |-> Num(99)]
ReadingSix ==
    [ heart_rate |-> Num(182), spo2 |-> Num(0),
      blood_pressure |-> Dict([systolic |-> Num(190), diastolic |-> Num(95)]),
      temperature |-> Num(400), respiratory_rate |-> Num(35) ]
EngineReadings == { ReadingNormal, ReadingSix }

InitEngine(e) ==
    /\ active_alerts = e.active
    /\ alert_counter = e.counter
    /\ now = e.now
    /\ created = e.created
    /\ last = NoCall
    /\ calls = 0

\* no polling task yet
NoPoll == [pc |-> "none", patients |-> << >>, alerts |-> << >>, wake |-> 0, cycles |-> 0]

InitMongo ==
    /\ db_set = FALSE
    /\ client_set = FALSE
    /\ collection = << >>
    /\ next_oid = 1
    /\ phase = "constructed"
    /\ restarts = 0
    /\ poll = NoPoll
    /\ es_up = TRUE
    /\ es_index = << >>
    /\ writes = << >>

(***************************************************************************)
(* The engine on its own: one action per method of AlertEngine.            *)
(***************************************************************************)
NoId == [prefix |-> "none", date |-> 0, seq |-> << >>]

\* ids a caller may pass to acknowledge: of a seed, of later alerts, of no alert
AckIds(t) ==
    { FormatAlertId(t, k) : k \in { 1, alert_counter } } \cup { NoId }

\* the engine becomes e, the outcome of the call on (p, vitals)
Commit(p, vitals, e) ==
    /\ active_alerts' = e.active
    /\ alert_counter' = e.counter
    /\ created' = e.created
    /\ calls' = calls + 1
    /\ last' = [op |-> "analyze", arg |-> << p, vitals >>, ret |-> e.alerts,
                raised |-> e.raised]

Analyze(p, vitals) ==
    /\ Commit(p, vitals, EngineStep(Engine, p, vitals))
    /\ now' = now + 1

\* A behaviour either starts freely, or with a warm-up that fills the history
\* of P001 up to the cap: during it only analyze_vitals(P001, six alerts) runs.
WarmingUp == calls < warmup

EngAnalyze ==
    \E p \in EngineSubjects, vitals \in EngineReadings :
        /\ IF WarmingUp THEN p = patient_ids[1] /\ vitals = ReadingSix
           ELSE calls < warmup + MaxEngineCalls
        /\ Analyze(p, vitals)
        /\ UNCHANGED << mongoVars, sinkVars, poll, phase, restarts, warmup >>

EngAcknowledge ==
    \E alert_id \in AckIds(now) :
        LET r == AcknowledgeAlert(active_alerts, alert_id)
        IN  /\ ~WarmingUp
            /\ active_alerts' = r.active
            /\ last' = [op |-> "acknowledge", arg |-> alert_id, ret |-> r.found,
                        raised |-> FALSE]
            /\ UNCHANGED << alert_counter, now, created, calls, mongoVars, sinkVars, poll, phase, restarts, warmup >>

EngClear ==
    \E p \in EngineSubjects :
        /\ ~WarmingUp
        /\ active_alerts' = ClearPatientAlerts(active_alerts, p)
        /\ last' = [op |-> "clear", arg |-> p, ret |-> << >>, raised |-> FALSE]
        /\ UNCHANGED << alert_counter, now, created, calls, mongoVars, sinkVars, poll, phase, restarts, warmup >>

EngGet ==
    \E p \in EngineSubjects :
        /\ ~WarmingUp
        /\ last' = [op |-> "get", arg |-> p, ret |-> GetPatientAlerts(active_alerts, p),
                    raised |-> FALSE]
        /\ UNCHANGED << engineVars, calls, mongoVars, sinkVars, poll, phase, restarts, warmup >>

InitEng ==
    /\ \E d \in SeedDraws : InitEngine(Constructed(Midday, d))
    /\ warmup \in { 0, WarmUpBatches }
    /\ mongo_up = FALSE
    /\ InitMongo

NextEng == EngAnalyze \/ EngAcknowledge \/ EngClear \/ EngGet

SpecEngine == InitEng /\ [][NextEng]_vars

(***************************************************************************)
(* mongodb_client: the durable store.  A document is what save_alert       *)
(* inserts: the dumped alert, created_at, and the _id (doc_id) that the    *)
(* store assigns; acknowledged_at is Unset until an acknowledgment.        *)
(***************************************************************************)
Unset == -1
NoOid == [prefix |-> "none", date |-> 0, seq |-> << >>]
ObjectId(n) == [prefix |-> "oid", date |-> 0, seq |-> Str(n)]

\* alert.model_dump(): the alert as a mapping; it has no _id and no created_at
ModelDump(a) ==
    [ id |-> a.id, patient_id |-> a.patient_id, type |-> a.type, message |-> a.message,
      severity |-> a.severity, vital_type |-> a.vital_type, vital_value |-> a.vital_value,
      threshold |-> a.threshold, timestamp |-> a.timestamp, acknowledged |-> a.acknowledged,
      created_at |-> Unset, acknowledged_at |-> Unset, doc_id |-> NoOid ]

\* for alert in alerts: await save_alert(alert.model_dump()), on
\* st = [collection, next_oid, now]; without a database handle nothing is
\* tried, and the server answers every insert or none
SaveAll(st, isset, up, alerts) ==
    IF ~isset THEN st
    ELSE IF ~up THEN [st EXCEPT !.now = @ + Len(alerts)]
    ELSE [ collection |-> st.collection \o
                          [ i \in 1..Len(alerts) |->
                              [ModelDump(alerts[i]) EXCEPT !.created_at = st.now + i,
                                                           !.doc_id = ObjectId(st.next_oid + i - 1)] ],
           next_oid |-> st.next_oid + Len(alerts),
           now |-> st.now + Len(alerts) ]

\* save_alert
SaveAlert(st, isset, up, alert) == SaveAll(st, isset, up, << alert >>)

\* es_client.log_alert: fire and forget; a failure is logged inside the client,
\* nothing is returned and nothing is raised
EsLogAlert(index, up, alert_data) == IF up THEN Append(index, alert_data.id) ELSE index

\* faulty variant of DualWrite: the document is saved only once it has been logged
DualWriteGated(st, es, isset, up, alert) ==
    LET m == SaveAlert([collection |-> st.collection, next_oid |-> st.next_oid, now |-> st.now],
                       es /\ isset, up, alert)
    IN  [ collection |-> m.collection, next_oid |-> m.next_oid, now |-> m.now,
          es_index |-> EsLogAlert(st.es_index, es, ModelDump(alert)),
          writes |-> Append(st.writes, [id |-> alert.id, es_up |-> es, mongo_up |-> isset /\ up]) ]

\* the two writes of one alert: es_client.log_alert(alert_data), then
\* await mongodb_client.save_alert(alert_data); st holds the collection, the
\* next ObjectId, the clock, the analytics index and the record of the writes
DualWrite(st, es, isset, up, alert) ==
    LET m == SaveAlert([collection |-> st.collection, next_oid |-> st.next_oid, now |-> st.now],
                       isset, up, alert)
    IN  [ collection |-> m.collection, next_oid |-> m.next_oid, now |-> m.now,
          es_index |-> EsLogAlert(st.es_index, es, ModelDump(alert)),
          writes |-> Append(st.writes, [id |-> alert.id, es_up |-> es, mongo_up |-> isset /\ up]) ]

\* for alert in alerts: the two writes
RECURSIVE DualWriteAll(_, _, _, _, _)
DualWriteAll(st, es, isset, up, alerts) ==
    IF alerts = << >> THEN st
    ELSE DualWriteAll(DualWrite(st, es, isset, up, Head(alerts)), es, isset, up, Tail(alerts))

\* the elements of s at the positions idx, in the order of s
SelectSeqIdx(s, idx) ==
    [ k \in 1..Cardinality(idx) |->
        s[CHOOSE i \in idx : Cardinality({ j \in idx : j < i }) = k - 1] ]

\* sorted(s, key=timestamp, reverse=True): stable, equal keys keep their order
SortDesc(s) ==
    LET rank(i) == Cardinality({ j \in 1..Len(s) : StrLess(s[i].timestamp, s[j].timestamp) })
                   + Cardinality({ j \in 1..(i - 1) : s[j].timestamp = s[i].timestamp })
                   + 1
    IN  [ k \in 1..Len(s) |-> s[CHOOSE i \in 1..Len(s) : rank(i) = k] ]

Reverse(s) == [ i \in 1..Len(s) |-> s[Len(s) + 1 - i] ]

\* cursor.limit(n): 0 means no limit
MongoLimit(s, n) == IF n = 0 THEN s ELSE Take(s, n)

\* find({"patient_id": p}).sort("timestamp", DESCENDING).limit(limit): the
\* order of documents with equal timestamps is not specified by the store;
\* natural says whether they come in insertion order or in its reverse
MongoFind(coll, p, limit, natural) ==
    LET mine == SelectSeqIdx(coll, { i \in 1..Len(coll) : coll[i].patient_id = p })
    IN  MongoLimit(SortDesc(IF natural THEN mine ELSE Reverse(mine)), limit)

\* a query that answers from the documents although the server does not
\* answer (faulty variant)
MongoGetPatientAlertsStale(coll, isset, up, p, limit, natural) ==
    IF ~isset THEN << >> ELSE MongoFind(coll, p, limit, natural)

\* mongodb_client.get_patient_alerts
MongoGetPatientAlerts(coll, isset, up, p, limit, natural) ==
    IF ~isset \/ ~up THEN << >> ELSE MongoFind(coll, p, limit, natural)

\* mongodb_client.acknowledge_alert: ObjectId(alert_id) raises unless alert_id
\* is the rendering of an ObjectId; st = [collection, now], ok the value returned
MongoAcknowledge(coll, t, isset, up, alert_id) ==
    IF ~isset \/ alert_id.prefix # "oid" \/ ~up
    THEN [collection |-> coll, ok |-> FALSE]
    ELSE [ collection |-> [ i \in 1..Len(coll) |->
                              IF coll[i].doc_id = alert_id
                              THEN [coll[i] EXCEPT !.acknowledged = TRUE,
                                                   !.acknowledged_at = t]
                              ELSE coll[i] ],
           ok |-> \E i \in 1..Len(coll) : coll[i].doc_id = alert_id ]

\* the merged view without the seen_ids test
MergeAll(memory_alerts, mongo_alerts, limit) ==
    Take(SortDesc(memory_alerts \o mongo_alerts), limit)

\* the merged view: memory first, an id seen before is skipped, stable sort
\* by timestamp with the most recent first, the first limit entries
Merge(memory_alerts, mongo_alerts, limit) ==
    LET all == memory_alerts \o mongo_alerts
        first == { i \in 1..Len(all) : \A j \in 1..(i - 1) : all[j].id # all[i].id }
    IN  Take(SortDesc(SelectSeqIdx(all, first)), limit)

DumpAll(alerts) == [ i \in 1..Len(alerts) |-> ModelDump(alerts[i]) ]

(***************************************************************************)
(* The service (main.py): start-up and the request handlers.               *)
(***************************************************************************)
ServiceSubjects == { patient_ids[1] }
ServiceReadings == { ReadingNormal, ReadingOne }
Sources == { "memory", "mongodb", "both" }
Limits == { 0, 1, 2, 10 }

\* lifespan up to yield: connect (the client objects are set before the
\* first request to the server), then persist_seed_alerts_to_mongodb
\* the store and the clock become st, the outcome of a run of saves
Saved(st) ==
    /\ collection' = st.collection
    /\ next_oid' = st.next_oid
    /\ now' = st.now

\* the stores after the writes of a handler
Written(st) ==
    /\ Saved(st)
    /\ es_index' = st.es_index
    /\ writes' = st.writes

Startup ==
    /\ phase = "constructed"
    /\ Saved(SaveAll([collection |-> collection, next_oid |-> next_oid, now |-> now],
                     TRUE, mongo_up, Flatten(active_alerts)))
    /\ client_set' = TRUE
    /\ db_set' = TRUE
    /\ phase' = "running"
    /\ last' = [op |-> "startup", arg |-> << >>, ret |-> mongo_up, raised |-> FALSE]
    /\ poll' = [NoPoll EXCEPT !.pc = "created"]
    /\ UNCHANGED << active_alerts, alert_counter, created, mongo_up, sinkVars, restarts, calls, warmup >>

\* the environment: the MongoDB server goes down or comes back
MongoFlip ==
    /\ mongo_up' = ~mongo_up
    /\ last' = [op |-> "mongo", arg |-> << >>, ret |-> ~mongo_up, raised |-> FALSE]
    /\ UNCHANGED << engineVars, db_set, client_set, collection, next_oid, phase,
                    sinkVars, poll, restarts, calls, warmup >>

\* POST /api/analyze
ApiAnalyze(maxCalls) ==
    \E p \in ServiceSubjects, vitals \in ServiceReadings :
        /\ phase = "running"
        /\ calls < maxCalls
        /\ Commit(p, vitals, EngineStep(Engine, p, vitals))
        /\ Written(DualWriteAll([collection |-> collection, next_oid |-> next_oid,
                                 now |-> now + 1, es_index |-> es_index, writes |-> << >>],
                                es_up, db_set, mongo_up, EngineStep(Engine, p, vitals).alerts))
        /\ UNCHANGED << db_set, client_set, mongo_up, es_up, poll, phase, restarts, warmup >>

\* ids a caller may pass: of the latest alert, of the latest document, of nothing
ServiceAckIds ==
    { FormatAlertId(now, alert_counter), ObjectId(next_oid - 1), NoId }

\* POST /api/alerts/{alert_id}/acknowledge; a 404 is raised when not found
ApiAcknowledge(maxCalls) ==
    \E alert_id \in ServiceAckIds :
        LET r == AcknowledgeAlert(active_alerts, alert_id)
            m == MongoAcknowledge(collection, now + 1, db_set, mongo_up, alert_id)
        IN  /\ phase = "running"
            /\ calls < maxCalls
            /\ calls' = calls + 1
            /\ active_alerts' = r.active
            /\ collection' = m.collection
            /\ now' = IF db_set /\ alert_id.prefix = "oid" THEN now + 1 ELSE now
            /\ last' = [op |-> "acknowledge", arg |-> alert_id, ret |-> r.found,
                        raised |-> ~r.found]
            \* the alerts the polling task has still to write are the objects
            \* of the history
            /\ poll' = [poll EXCEPT !.alerts =
                          [ i \in 1..Len(@) |->
                              IF r.found /\ @[i].id = alert_id
                              THEN [@[i] EXCEPT !.acknowledged = TRUE] ELSE @[i] ]]
            /\ UNCHANGED << alert_counter, created, db_set, client_set, mongo_up, next_oid,
                            sinkVars, phase, restarts, warmup >>

\* DELETE /api/alerts/{patient_id}
ApiClear ==
    \E p \in ServiceSubjects :
        /\ phase = "running"
        /\ active_alerts' = ClearPatientAlerts(active_alerts, p)
        /\ last' = [op |-> "clear", arg |-> p, ret |-> << >>, raised |-> FALSE]
        /\ UNCHANGED << alert_counter, now, created, mongoVars, sinkVars, poll, phase, restarts, calls, warmup >>

\* GET /api/alerts/{patient_id}?source=&limit=
\* answers tells whether the requests of this call to the server are answered
QueryAnswered(p, source, limit, natural, answers) ==
    IF source = "memory" THEN Take(DumpAll(GetPatientAlerts(active_alerts, p)), limit)
    ELSE IF source = "mongodb"
         THEN MongoGetPatientAlerts(collection, db_set, answers, p, limit, natural)
    ELSE Merge(DumpAll(GetPatientAlerts(active_alerts, p)),
               MongoGetPatientAlerts(collection, db_set, answers, p, limit, natural),
               limit)

QueryPatientAlerts(p, source, limit, natural) ==
    QueryAnswered(p, source, limit, natural, mongo_up)

ApiGetPatientAlerts ==
    \E p \in ServiceSubjects, source \in Sources, limit \in Limits, natural \in BOOLEAN :
        /\ phase = "running"
        /\ last' = [op |-> "query", arg |-> << p, source, limit >>,
                    ret |-> QueryPatientAlerts(p, source, limit, natural), raised |-> FALSE]
        /\ UNCHANGED << engineVars, mongoVars, sinkVars, poll, phase, restarts, calls, warmup >>

Init ==
    /\ InitEngine(Constructed(Midday, OtherDraw))
    /\ warmup = 0
    /\ mongo_up = TRUE
    /\ InitMongo

NextService(maxCalls) ==
    \/ Startup
    \/ MongoFlip
    \/ ApiAnalyze(maxCalls)
    \/ ApiAcknowledge(maxCalls)
    \/ ApiClear
    \/ ApiGetPatientAlerts

Next == NextService(MaxServiceCalls)

Spec == Init /\ [][Next]_vars

(***************************************************************************)
(* The service across process restarts: the process ends and a new one is  *)
(* started; the durable store keeps its documents, the new process builds  *)
(* a new AlertEngine and new mongodb_client globals.                       *)
(***************************************************************************)
NextDay(t) == (t \div TicksPerDay + 1) * TicksPerDay + 5 * TicksPerMinute

Restart ==
    \E t0 \in { now + 1, NextDay(now) } :
        LET e == Constructed(t0, OtherDraw)
        IN  /\ phase = "running"
            /\ restarts < MaxRestarts
            /\ restarts' = restarts + 1
            /\ active_alerts' = e.active
            /\ alert_counter' = e.counter
            /\ now' = e.now
            /\ created' = e.created
            /\ db_set' = FALSE
            /\ client_set' = FALSE
            /\ phase' = "constructed"
            /\ last' = [op |-> "restart", arg |-> t0, ret |-> << >>, raised |-> FALSE]
            /\ poll' = NoPoll
            /\ UNCHANGED << mongo_up, collection, next_oid, sinkVars, calls, warmup >>

NextRestart ==
    \/ NextService(MaxRestartCalls)
    \/ Restart

SpecRestart == Init /\ [][NextRestart]_vars

(***************************************************************************)
(* The durable-store client called directly (SpecStore): connect,          *)
(* disconnect, is_connected and the three operations in any order, the     *)
(* server going down and coming back, and the merged query of the handler. *)
(* Here phase records the last connect or disconnect: "constructed" (none  *)
(* yet), "connected" (connect returned True), "failed" (connect returned   *)
(* False), "disconnected".                                                 *)
(***************************************************************************)

\* connect: _client and _db are assigned before the first request to the
\* server (create_index, ping); a failing request is caught and False returned
StoreConnect ==
    /\ client_set' = TRUE
    /\ db_set' = TRUE
    /\ phase' = IF mongo_up THEN "connected" ELSE "failed"
    /\ last' = [op |-> "connect", arg |-> << >>, ret |-> mongo_up, raised |-> FALSE]
    /\ UNCHANGED << engineVars, mongo_up, collection, next_oid, sinkVars, poll,
                    restarts, calls, warmup >>

\* disconnect: closes and forgets _client; _db keeps the handle of the closed client
StoreDisconnect ==
    /\ client_set' = FALSE
    /\ phase' = "disconnected"
    /\ last' = [op |-> "disconnect", arg |-> << >>, ret |-> << >>, raised |-> FALSE]
    /\ UNCHANGED << engineVars, db_set, mongo_up, collection, next_oid, sinkVars, poll,
                    restarts, calls, warmup >>

\* is_connected
IsConnected == client_set

StoreIsConnected ==
    /\ last' = [op |-> "is_connected", arg |-> << >>, ret |-> IsConnected, raised |-> FALSE]
    /\ UNCHANGED << engineVars, mongoVars, sinkVars, poll, phase, restarts, calls, warmup >>

\* whether a request made through _db is answered: the server must be up,
\* and a request through the handle of a closed client either raises or
\* reopens the connection, depending on the driver (reopens)
Answers(reopens) == mongo_up /\ (client_set \/ reopens)

\* the alerts handed to save_alert: the first two of the first patient
StoreAlerts == { GetPatientAlerts(active_alerts, patient_ids[1])[i] : i \in 1..2 }

\* save_alert(alert.model_dump()); returns the rendering of the new ObjectId, or None
StoreSave ==
    \E alert \in StoreAlerts, reopens \in BOOLEAN :
        /\ calls < MaxStoreCalls
        /\ calls' = calls + 1
        /\ Saved(SaveAlert([collection |-> collection, next_oid |-> next_oid, now |-> now],
                           db_set, Answers(reopens), alert))
        /\ last' = [op |-> "save", arg |-> << alert.id, reopens >>,
                    ret |-> IF db_set /\ Answers(reopens) THEN ObjectId(next_oid) ELSE NoOid,
                    raised |-> FALSE]
        /\ UNCHANGED << active_alerts, alert_counter, created, db_set, client_set, mongo_up,
                        sinkVars, poll, phase, restarts, warmup >>

\* get_patient_alerts(patient_id, limit)
StoreFind ==
    \E limit \in Limits, natural \in BOOLEAN, reopens \in BOOLEAN :
        /\ last' = [op |-> "find", arg |-> << patient_ids[1], limit, reopens >>,
                    ret |-> MongoGetPatientAlerts(collection, db_set, Answers(reopens),
                                                  patient_ids[1], limit, natural),
                    raised |-> FALSE]
        /\ UNCHANGED << engineVars, mongoVars, sinkVars, poll, phase, restarts, calls, warmup >>

\* acknowledge_alert(alert_id)
StoreAcknowledge ==
    \E alert_id \in ServiceAckIds, reopens \in BOOLEAN :
        LET m == MongoAcknowledge(collection, now + 1, db_set, Answers(reopens), alert_id)
        IN  /\ calls < MaxStoreCalls
            /\ calls' = calls + 1
            /\ collection' = m.collection
            /\ now' = now + 1
            /\ last' = [op |-> "acknowledge_alert", arg |-> << alert_id, reopens >>,
                        ret |-> m.ok, raised |-> FALSE]
            /\ UNCHANGED << active_alerts, alert_counter, created, db_set, client_set, mongo_up,
                            next_oid, sinkVars, poll, phase, restarts, warmup >>

\* GET /api/alerts/{patient_id}?source=both&limit=
StoreMerged ==
    \E limit \in Limits, natural \in BOOLEAN, reopens \in BOOLEAN :
        /\ last' = [op |-> "merged", arg |-> << patient_ids[1], limit, reopens >>,
                    ret |-> QueryAnswered(patient_ids[1], "both", limit, natural,
                                          Answers(reopens)),
                    raised |-> FALSE]
        /\ UNCHANGED << engineVars, mongoVars, sinkVars, poll, phase, restarts, calls, warmup >>

NextStore ==
    \/ StoreConnect
    \/ StoreDisconnect
    \/ StoreIsConnected
    \/ MongoFlip
    \/ StoreSave
    \/ StoreFind
    \/ StoreAcknowledge
    \/ StoreMerged

SpecStore == Init /\ [][NextStore]_vars

(***************************************************************************)
(* The polling task and the lifespan of the service.  The task is one      *)
(* coroutine on the event loop of the handlers: it runs without            *)
(* interruption from one await to the next, and is suspended in            *)
(* client.get (pc "fetching"), in mongodb_client.save_alert (pc "saving")  *)
(* or in asyncio.sleep (pc "sleeping").  analyze_vitals and                *)
(* es_client.log_alert are plain calls.                                    *)
(***************************************************************************)
poll_interval == 5        \* seconds

Ticks(seconds) == (seconds * TicksPerMinute) \div 60

P001 == patient_ids[1]

\* what client.get may bring: an exception, a status other than 200, or
\* the list of patients
VitalsResponses ==
    { [status |-> "error", json |-> << >>],
      [status |-> "503", json |-> << [id |-> P001, vitals |-> ReadingOne] >>],
      [status |-> "200", json |-> << [id |-> P001,
                                      vitals |-> [heart_rate |-> Num(182), spo2 |-> Num(85)]] >>],
      [status |-> "200", json |-> << [id |-> P001, vitals |-> ReadingOne],
                                     [id |-> S1, vitals |-> [heart_rate |-> None]] >>],
      [status |-> "200", json |-> << [vitals |-> ReadingOne] >>] }

\* the task and what it works on, from the state as it stands
PollContext(patients) ==
    [ active |-> active_alerts, counter |-> alert_counter, now |-> now, created |-> created,
      collection |-> collection, next_oid |-> next_oid, es_index |-> es_index,
      writes |-> << >>, pc |-> poll.pc, patients |-> patients, alerts |-> poll.alerts,
      wake |-> poll.wake, raised |-> FALSE ]

\* await asyncio.sleep(5)
PollSleep(c) ==
    [c EXCEPT !.pc = "sleeping", !.patients = << >>, !.alerts = << >>,
              !.wake = c.now + Ticks(poll_interval)]

\* faulty variant of PollExcept: the exception ends the task
PollExceptFatal(c) ==
    [c EXCEPT !.pc = "failed", !.patients = << >>, !.alerts = << >>, !.raised = TRUE]

\* except Exception as e: logger.error(...), then the sleep
PollExcept(c) == PollSleep([c EXCEPT !.raised = TRUE])

\* faulty variant of PollWrite: an alert that a server did not take is taken
\* out of the history again
PollWriteRollback(c, es, isset, up) ==
    [ pc |-> "saving", alerts |-> Tail(c.alerts),
      active |-> IF es /\ isset /\ up THEN c.active
                 ELSE [ i \in 1..Len(c.active) |->
                          [c.active[i] EXCEPT !.alerts =
                              SelectSeq(@, LAMBDA a : a.id # Head(c.alerts).id)] ] ]
        @@ DualWrite(c, es, isset, up, Head(c.alerts)) @@ c

\* faulty variant of PollWrite: after the first alert of a batch the rest of
\* the batch is skipped
PollWriteFirstOnly(c, es, isset, up) ==
    [pc |-> "saving", alerts |-> << >>]
        @@ DualWrite(c, es, isset, up, Head(c.alerts)) @@ c

\* the next alert of the batch is logged and saved; the task is suspended in
\* save_alert
PollWrite(c, es, isset, up) ==
    [pc |-> "saving", alerts |-> Tail(c.alerts)]
        @@ DualWrite(c, es, isset, up, Head(c.alerts)) @@ c

\* The task runs until its next await: the alerts of the patient at hand are
\* written one by one, suspending in each save_alert; then the next patient
\* is analyzed; after the last one the task sleeps.
RECURSIVE PollRun(_, _, _, _)
PollRun(c, es, isset, up) ==
    IF c.raised THEN PollExcept(c)
    ELSE IF c.alerts # << >> THEN PollWrite(c, es, isset, up)
    ELSE IF c.patients = << >> THEN PollSleep(c)
    ELSE IF "id" \notin DOMAIN Head(c.patients) THEN PollExcept(c)
    ELSE CHOOSE r \in
           { PollRun(analyzed, es, isset, up) : analyzed \in
               { [patients |-> Tail(c.patients)]
                    @@ EngineStep(c, Head(c.patients).id,
                                  Get(Head(c.patients), "vitals", << >>))
                    @@ c } } : TRUE

\* faulty variant of PollFetched: the body is read whatever the status
PollFetchedAnyStatus(c, response, es, isset, up) ==
    IF response.status = "error" THEN PollExcept(c)
    ELSE PollRun([c EXCEPT !.patients = response.json], es, isset, up)

\* the task resumes from client.get
PollFetched(c, response, es, isset, up) ==
    IF response.status = "error" THEN PollExcept(c)
    ELSE IF response.status # "200" THEN PollSleep(c)
    ELSE PollRun([c EXCEPT !.patients = response.json], es, isset, up)

PollCommit(c, what) ==
    /\ active_alerts' = c.active
    /\ alert_counter' = c.counter
    /\ now' = c.now
    /\ created' = c.created
    /\ collection' = c.collection
    /\ next_oid' = c.next_oid
    /\ es_index' = c.es_index
    /\ writes' = c.writes
    /\ poll' = [pc |-> c.pc, patients |-> c.patients, alerts |-> c.alerts,
                wake |-> c.wake, cycles |-> poll.cycles]
    /\ last' = [op |-> "poll", arg |-> what, ret |-> c.writes, raised |-> c.raised]
    /\ UNCHANGED << db_set, client_set, mongo_up, es_up, phase, restarts, calls, warmup >>

\* the task starts, or its sleep is over: the next cycle begins with the fetch
PollIssueFetch(maxCycles) ==
    /\ phase = "running"
    /\ poll.pc \in {"created", "sleeping"}
    /\ poll.cycles < maxCycles
    /\ poll' = [poll EXCEPT !.pc = "fetching", !.cycles = @ + 1]
    /\ now' = IF now < poll.wake THEN poll.wake ELSE now
    /\ last' = [op |-> "poll", arg |-> "fetch", ret |-> << >>, raised |-> FALSE]
    /\ UNCHANGED << active_alerts, alert_counter, created, mongoVars, sinkVars,
                    phase, restarts, calls, warmup >>

PollResponse ==
    \E response \in VitalsResponses :
        /\ phase = "running"
        /\ poll.pc = "fetching"
        /\ \E c \in { PollFetched(PollContext(<< >>), response, es_up, db_set, mongo_up) } :
               PollCommit(c, response.status)

\* the task resumes from save_alert
PollSaved ==
    /\ phase = "running"
    /\ poll.pc = "saving"
    /\ \E c \in { PollRun(PollContext(poll.patients), es_up, db_set, mongo_up) } :
           PollCommit(c, "saved")

\* the environment: the Elasticsearch server goes down or comes back
EsFlip ==
    /\ es_up' = ~es_up
    /\ UNCHANGED << engineVars, last, mongoVars, es_index, writes, poll, phase, restarts,
                    calls, warmup >>

\* GET /api/alerts/{patient_id}?source=memory
ApiGetMemory ==
    /\ phase = "running"
    /\ last' = [op |-> "query", arg |-> << P001, "memory", HistoryCap >>,
                ret |-> QueryPatientAlerts(P001, "memory", HistoryCap, TRUE), raised |-> FALSE]
    /\ UNCHANGED << engineVars, mongoVars, sinkVars, poll, phase, restarts, calls, warmup >>

\* faulty variant of Cancelled: CancelledError is caught with the other
\* exceptions and the loop goes on
CancelSwallowed(p) == [p EXCEPT !.pc = "sleeping", !.patients = << >>, !.alerts = << >>]

\* CancelledError is raised in the task where it is suspended; except Exception
\* does not catch it, and the task ends
Cancelled(p) == [p EXCEPT !.pc = "cancelled", !.patients = << >>, !.alerts = << >>]

\* lifespan after the yield: task.cancel(), then await task
ShutdownCancel ==
    /\ phase = "running"
    /\ phase' = "stopping"
    /\ last' = [op |-> "shutdown", arg |-> "cancel", ret |-> << >>, raised |-> FALSE]
    /\ UNCHANGED << engineVars, mongoVars, sinkVars, poll, restarts, calls, warmup >>

PollCancelled ==
    /\ phase = "stopping"
    /\ poll.pc # "cancelled"
    /\ poll' = Cancelled(poll)
    /\ last' = [op |-> "poll", arg |-> "cancelled", ret |-> << >>, raised |-> FALSE]
    /\ UNCHANGED << engineVars, mongoVars, sinkVars, phase, restarts, calls, warmup >>

\* except asyncio.CancelledError: pass, then mongodb_client.disconnect()
ShutdownFinish ==
    /\ phase = "stopping"
    /\ poll.pc = "cancelled"
    /\ phase' = "stopped"
    /\ client_set' = FALSE
    /\ last' = [op |-> "shutdown", arg |-> "disconnect", ret |-> << >>, raised |-> FALSE]
    /\ UNCHANGED << engineVars, db_set, mongo_up, collection, next_oid, sinkVars, poll,
                    restarts, calls, warmup >>

NextPoller ==
    \/ Startup
    \/ MongoFlip
    \/ PollIssueFetch(MaxCycles)
    \/ PollResponse
    \/ PollSaved
    \/ ShutdownCancel
    \/ PollCancelled
    \/ ShutdownFinish

\* The fetch ends within its timeout of ten seconds, a save within the
\* timeouts of the driver, and the sleep after five seconds; a cancelled
\* task is resumed by the event loop, and so is the lifespan awaiting it.
SpecPoller ==
    /\ Init
    /\ [][NextPoller]_vars
    /\ WF_vars(PollIssueFetch(MaxCycles) \/ PollResponse \/ PollSaved)
    /\ WF_vars(PollCancelled)
    /\ WF_vars(ShutdownFinish)

\* the task and the analyze requests while the two servers come and go
NextSinks ==
    \/ Startup
    \/ MongoFlip
    \/ EsFlip
    \/ ApiAnalyze(MaxSinkOps - poll.cycles)
    \/ PollIssueFetch(MaxSinkOps - calls)
    \/ PollResponse
    \/ PollSaved

SpecSinks == Init /\ [][NextSinks]_vars

\* the task and the requests on one event loop
NextConcurrent ==
    \/ Startup
    \/ ApiAnalyze(MaxConcurrentCalls)
    \/ ApiAcknowledge(MaxConcurrentCalls)
    \/ ApiClear
    \/ ApiGetMemory
    \/ PollIssueFetch(MaxConcurrentCycles)
    \/ PollResponse
    \/ PollSaved

SpecConcurrent == Init /\ [][NextConcurrent]_vars

(***************************************************************************)
(* Properties of the engine (SpecEngine).                                  *)
(***************************************************************************)
Live == Flatten(active_alerts)
LiveIds == { Live[i].id : i \in 1..Len(Live) }
Range(f) == { f[i] : i \in DOMAIN f }

\* C1: after an accumulate on a subject its history holds at most 50 alerts,
\* and its first element belongs to the batch accumulated last: it is the
\* first alert of that batch, and no alert of the history has a later timestamp.
C1_CapAndNewestFirst ==
    /\ \A i \in 1..Len(active_alerts) : Len(active_alerts[i].alerts) <= HistoryCap
    /\ (last.op = "analyze" /\ last.ret # << >>) =>
           LET h == GetPatientAlerts(active_alerts, last.arg[1])
           IN  /\ h # << >>
               /\ h[1] = last.ret[1]
               /\ \A j \in 1..Len(h) : ~StrLess(h[1].timestamp, h[j].timestamp)

\* C1 witness: a batch of six was accumulated onto a history that then
\* exceeded the cap and was cut to 50
C1_Witness ==
    /\ last.op = "analyze"
    /\ Len(last.ret) = 6
    /\ Len(GetPatientAlerts(active_alerts, last.arg[1])) = HistoryCap

\* C2: no two alerts of the live store share an id, every live id was handed
\* out by this process, and the sequence numbers of the ids handed out
\* strictly increase in creation order.
C2_IdsUniqueIncreasing ==
    /\ Cardinality(LiveIds) = Len(Live)
    /\ LiveIds \subseteq Range(created)
    /\ \A i \in 1..(Len(created) - 1) : SeqOfId(created[i]) < SeqOfId(created[i + 1])

\* C2 witness: seeds and two later batches, for two subjects, are in the store
C2_Witness ==
    /\ calls = 2
    /\ warmup = 0
    /\ Len(created) >= NumSeeds + 12
    /\ Len(GetPatientAlerts(active_alerts, S1)) >= 6
    /\ Len(GetPatientAlerts(active_alerts, P001)) > SeedsPerPatient

\* C4: an analyze call that produces no alert leaves the whole store as it
\* was: every history, their order, and the set of subjects that have one.
C4_EmptyBatchNoOp ==
    [][ (last'.op = "analyze" /\ last'.ret = << >>) => active_alerts' = active_alerts ]_vars

\* C4 witness: a call without alerts for a subject that has no history
C4_Witness ==
    /\ last.op = "analyze"
    /\ last.ret = << >>
    /\ ~Has(active_alerts, last.arg[1])
    /\ Len(GetPatientAlerts(active_alerts, P001)) = HistoryCap

Positions(d, Test(_)) ==
    UNION { { <<i, j>> : j \in { k \in 1..Len(d[i].alerts) : Test(d[i].alerts[k]) } } :
            i \in 1..Len(d) }

\* C6: acknowledge of an id that no history holds returns false and changes
\* nothing; of an id that is held it returns true, the one alert with that id
\* is acknowledged afterwards (exactly one flag flips if it was not yet), and
\* no other alert, no key and no order changes.
C6_Acknowledge ==
    [][ last'.op = "acknowledge" =>
          LET WithId(a) == a.id = last'.arg
              targets == Positions(active_alerts, WithId)
              Fresh(a) == a.id = last'.arg /\ ~a.acknowledged
              IsAcked(a) == a.acknowledged
          IN  IF targets = {}
              THEN last'.ret = FALSE /\ active_alerts' = active_alerts
              ELSE /\ last'.ret = TRUE
                   /\ Cardinality(targets) = 1
                   /\ Len(active_alerts') = Len(active_alerts)
                   /\ \A i \in 1..Len(active_alerts) :
                        /\ active_alerts'[i].key = active_alerts[i].key
                        /\ Len(active_alerts'[i].alerts) = Len(active_alerts[i].alerts)
                        /\ \A j \in 1..Len(active_alerts[i].alerts) :
                             active_alerts'[i].alerts[j] =
                                 IF active_alerts[i].alerts[j].id = last'.arg
                                 THEN [active_alerts[i].alerts[j] EXCEPT !.acknowledged = TRUE]
                                 ELSE active_alerts[i].alerts[j]
                   /\ Cardinality(Positions(active_alerts', IsAcked))
                        = Cardinality(Positions(active_alerts, IsAcked))
                            + Cardinality(Positions(active_alerts, Fresh))
      ]_vars

\* C6 witness: an acknowledge that found its alert, in a store where exactly
\* one alert is acknowledged
C6_Witness ==
    /\ last.op = "acknowledge"
    /\ last.ret = TRUE
    /\ Cardinality({ i \in 1..Len(Live) : Live[i].acknowledged }) = 1
    /\ alert_counter > NumSeeds

\* C22: in every state from construction on, the timestamps of every
\* subject's history are non-increasing from the first alert to the last.
C22_HistoryNewestFirst ==
    \A i \in 1..Len(active_alerts) :
        \A j \in 1..(Len(active_alerts[i].alerts) - 1) :
            ~StrLess(active_alerts[i].alerts[j].timestamp,
                     active_alerts[i].alerts[j + 1].timestamp)

\* C23: clear of a subject leaves that subject with an empty history, every
\* other subject's history and key as they were, and the id counter unchanged;
\* on a subject without a history it changes nothing; and the next batch
\* accumulated for a subject without a history becomes its whole history.
C23_ClearOnlyThatSubject ==
    [][ /\ last'.op = "clear" =>
              /\ GetPatientAlerts(active_alerts', last'.arg) = << >>
              /\ ~Has(active_alerts', last'.arg)
              /\ \A i \in 1..Len(active_alerts) :
                    active_alerts[i].key # last'.arg =>
                        /\ Has(active_alerts', active_alerts[i].key)
                        /\ GetPatientAlerts(active_alerts', active_alerts[i].key)
                               = active_alerts[i].alerts
              /\ Keys(active_alerts') \subseteq Keys(active_alerts)
              /\ alert_counter' = alert_counter
              /\ created' = created
              /\ ~last'.raised
              /\ ~Has(active_alerts, last'.arg) => active_alerts' = active_alerts
        /\ (last'.op = "analyze" /\ ~Has(active_alerts, last'.arg[1])
                /\ last'.ret # << >>) =>
              GetPatientAlerts(active_alerts', last'.arg[1]) = last'.ret
      ]_vars

\* C23 witness: a seeded subject whose history is exactly the batch just
\* accumulated (its seeds were cleared before), the other subjects still
\* holding their seeds and the counter beyond the seeds
C23_Witness ==
    /\ last.op = "analyze"
    /\ last.arg[1] = patient_ids[1]
    /\ last.ret # << >>
    /\ GetPatientAlerts(active_alerts, patient_ids[1]) = last.ret
    /\ Len(GetPatientAlerts(active_alerts, patient_ids[2])) = SeedsPerPatient
    /\ alert_counter = NumSeeds + Len(last.ret)

(***************************************************************************)
(* The rules as a function of the reading (SpecClassify): the initial      *)
(* state holds a reading, the one action hands it to analyze_vitals.       *)
(***************************************************************************)
Absent == -1
HeartRates == { Absent, 0, 40, 41, 60, 61, 100, 101, 149, 150, 182 }
Spo2s == { Absent, 0, 90, 91, 94, 95 }
Systolics == { Absent, 90, 140, 180 }
Temperatures == { Absent, 350, 355, 380, 395 }
Respiratories == { Absent, 8, 10, 24, 30 }

\* the mapping with the given keys, without those whose value is absent
Reading(hr, sp, sys, temp, resp) ==
    LET given == [ heart_rate |-> hr, spo2 |-> sp, blood_pressure |-> sys,
                   temperature |-> temp, respiratory_rate |-> resp ]
    IN  [ k \in { f \in DOMAIN given : given[f] # Absent } |->
            IF k = "blood_pressure"
            THEN Dict([systolic |-> Num(given[k]), diastolic |-> Num(80)])
            ELSE Num(given[k]) ]

ClassifyReadings ==
    { Reading(hr, sp, sys, temp, resp) :
        hr \in HeartRates, sp \in Spo2s, sys \in Systolics,
        temp \in Temperatures, resp \in Respiratories }

\* readings with a value that is null or of the wrong type; in the third and
\* the last one a rule before the faulty value raises an alert
MalformedReadings ==
    { [heart_rate |-> None],
      [heart_rate |-> StrVal],
      [heart_rate |-> Num(182), spo2 |-> None],
      [heart_rate |-> Num(72), blood_pressure |-> None],
      [heart_rate |-> Num(72), blood_pressure |-> StrVal],
      [heart_rate |-> Num(72), blood_pressure |-> Dict([systolic |-> StrVal])],
      [heart_rate |-> Num(72), blood_pressure |-> Dict([systolic |-> None])],
      [heart_rate |-> Num(72), temperature |-> None],
      [heart_rate |-> Num(72), respiratory_rate |-> StrVal],
      [heart_rate |-> Num(182), spo2 |-> Num(85), temperature |-> StrVal] }

InitClassify ==
    /\ active_alerts = Constructed(Midday, OtherDraw).active
    /\ alert_counter = NumSeeds
    /\ now = Midday + NumSeeds
    /\ created = Constructed(Midday, OtherDraw).created
    /\ \E vitals \in ClassifyReadings \cup MalformedReadings :
           last = [op |-> "reading", arg |-> << S1, vitals >>, ret |-> << >>, raised |-> FALSE]
    /\ calls = 0
    /\ warmup = 0
    /\ mongo_up = FALSE
    /\ InitMongo

ClassifyReading ==
    /\ last.op = "reading"
    /\ Analyze(last.arg[1], last.arg[2])
    /\ UNCHANGED << mongoVars, sinkVars, poll, phase, restarts, warmup >>

SpecClassify == InitClassify /\ [][ClassifyReading]_vars

\* the reading and the result of the call just made
Analyzed == last.op = "analyze" /\ ~last.raised
Given(key) == Get(last.arg[2], key, None)
GivenNum(key, n) == Given(key).t = "num" /\ Given(key).v = n
OfType(alerts, type) == { i \in 1..Len(alerts) : alerts[i].type = type }

\* C8: the reading {heart_rate: 0, spo2: 0} yields exactly one alert, a
\* sensor disconnection of severity warning and value 0, and neither a
\* bradycardia nor a hypoxia alert.
C8_ZeroReadingOnlySensor ==
    (Analyzed /\ last.arg[2] = [heart_rate |-> Num(0), spo2 |-> Num(0)]) =>
        /\ Len(last.ret) = 1
        /\ last.ret[1].type = SENSOR_DISCONNECT
        /\ last.ret[1].severity = WARNING
        /\ last.ret[1].vital_value = 0
        /\ OfType(last.ret, BRADYCARDIA) = {}
        /\ OfType(last.ret, HYPOXIA) = {}

\* C9: a heart rate at or above the high-critical threshold yields exactly one
\* tachycardia alert, critical, with the high-critical constant as threshold;
\* a heart rate strictly between the high-warning and the high-critical
\* threshold yields exactly one tachycardia alert, of severity warning.
C9_Tachycardia ==
    (Analyzed /\ Given("heart_rate").t = "num") =>
        LET hr == Given("heart_rate").v
            tachy == OfType(last.ret, TACHYCARDIA)
        IN  /\ hr >= hr_high_critical =>
                 /\ Cardinality(tachy) = 1
                 /\ \A i \in tachy : /\ last.ret[i].severity = CRITICAL
                                     /\ last.ret[i].threshold = hr_high_critical
            /\ (hr > hr_high_warning /\ hr < hr_high_critical) =>
                 /\ Cardinality(tachy) = 1
                 /\ \A i \in tachy : last.ret[i].severity = WARNING

\* C9 witness: a heart rate equal to the high-critical threshold was classified
C9_Witness ==
    /\ Analyzed
    /\ GivenNum("heart_rate", hr_high_critical)
    /\ OfType(last.ret, TACHYCARDIA) # {}

\* the boundaries the code tests on the two-sided channels: key of the
\* reading, boundary, and the alert of that boundary
Boundaries ==
    { << "heart_rate", hr_high_critical, TACHYCARDIA, CRITICAL >>,
      << "heart_rate", hr_high_warning, TACHYCARDIA, WARNING >>,
      << "heart_rate", hr_low_warning, BRADYCARDIA, WARNING >>,
      << "heart_rate", hr_low_critical, BRADYCARDIA, CRITICAL >>,
      << "temperature", temp_critical, FEVER, CRITICAL >>,
      << "temperature", temp_warning, FEVER, WARNING >>,
      << "temperature", temp_low_critical, HYPOTHERMIA, CRITICAL >>,
      << "respiratory_rate", resp_high_critical, TACHYPNEA, CRITICAL >>,
      << "respiratory_rate", resp_high_warning, TACHYPNEA, WARNING >>,
      << "respiratory_rate", resp_low_critical, BRADYPNEA, CRITICAL >> }

\* C10, as amended: the tests are not strict; a value equal to a boundary the
\* code has triggers the alert of that boundary.
C10_BoundaryTriggers ==
    Analyzed =>
        \A b \in Boundaries :
            GivenNum(b[1], b[2]) =>
                \E i \in 1..Len(last.ret) :
                    /\ last.ret[i].vital_type = b[1]
                    /\ last.ret[i].type = b[3]
                    /\ last.ret[i].severity = b[4]
                    /\ last.ret[i].threshold = b[2]
                    /\ last.ret[i].vital_value = b[2]

\* C10 witness: every two-sided channel was given one of its boundaries
C10_Witness ==
    /\ Analyzed
    /\ GivenNum("heart_rate", hr_low_critical)
    /\ GivenNum("temperature", temp_warning)
    /\ GivenNum("respiratory_rate", resp_low_critical)
    /\ Len(last.ret) >= 3

\* C10 as stated: a value equal to a boundary does not trigger the alert of
\* that boundary.
C10_StrictInequalities ==
    Analyzed =>
        \A i \in 1..Len(last.ret) :
            last.ret[i].vital_type \in { "heart_rate", "temperature", "respiratory_rate" }
                => last.ret[i].vital_value # last.ret[i].threshold

\* what the claims compare of an alert: kind, severity, value and threshold
Projection(alerts) ==
    [ i \in 1..Len(alerts) |-> << alerts[i].type, alerts[i].severity,
                                  alerts[i].vital_value, alerts[i].threshold >> ]
OfVital(alerts, vital_type) ==
    SelectSeqIdx(alerts, { i \in 1..Len(alerts) : alerts[i].vital_type = vital_type })
Only(r, keys) == [ k \in DOMAIN r \cap keys |-> r[k] ]
Channels == { "heart_rate", "spo2", "blood_pressure", "temperature", "respiratory_rate" }
Classified(r) == Classify(NumSeeds, Midday, S1, r)

\* the order in which the channels are examined
ChannelOrder ==
    << "heart_rate", "spo2", "blood_pressure", "temperature", "respiratory_rate", "sensor" >>
ChannelRank(vital_type) == CHOOSE k \in 1..Len(ChannelOrder) : ChannelOrder[k] = vital_type
InChannelOrder(alerts) ==
    \A i, j \in 1..Len(alerts) :
        ChannelRank(alerts[i].vital_type) < ChannelRank(alerts[j].vital_type) => i < j

\* C24: the alerts of one call are returned in the channel order heart rate,
\* spo2, blood pressure, temperature, respiratory rate, sensor disconnect
\* (an alert of an earlier channel before every alert of a later one), and
\* they stand in this order at the front of the subject's history.
C24_ChannelOrder ==
    Analyzed =>
        LET h == GetPatientAlerts(active_alerts, last.arg[1])
        IN  /\ \A i \in 1..Len(last.ret) : last.ret[i].vital_type \in Range(ChannelOrder)
            /\ InChannelOrder(last.ret)
            /\ Len(h) >= Len(last.ret)
            /\ SubSeq(h, 1, Len(last.ret)) = last.ret
            /\ InChannelOrder(h)

\* C24 witness: a call in which all six channels raised an alert
C24_Witness ==
    /\ Analyzed
    /\ { last.ret[i].vital_type : i \in 1..Len(last.ret) } = Range(ChannelOrder)
    /\ GetPatientAlerts(active_alerts, last.arg[1]) = last.ret

\* C11: a temperature (a respiratory rate) below the low-warning boundary and
\* above the low-critical boundary yields a hypothermia (a bradypnea) alert
\* of severity warning
C11_LowWarning ==
    Analyzed =>
        /\ ( /\ Given("temperature").t = "num"
             /\ Given("temperature").v > temp_low_critical
             /\ Given("temperature").v < temp_low_warning )
           => \E i \in OfType(last.ret, HYPOTHERMIA) : last.ret[i].severity = WARNING
        /\ ( /\ Given("respiratory_rate").t = "num"
             /\ Given("respiratory_rate").v > resp_low_critical
             /\ Given("respiratory_rate").v < resp_low_warning )
           => \E i \in OfType(last.ret, BRADYPNEA) : last.ret[i].severity = WARNING

\* the alerts a channel raises for the reading r when it is given alone
Independent(r, key) == Projection(OfVital(Classified(Only(r, { key })).alerts, key))
\* the sensor-disconnect alerts for the two values that rule reads
IndependentSensor(r) ==
    Projection(OfVital(Classified(Only(r, { "heart_rate", "spo2" })).alerts, "sensor"))

\* C12: the alerts returned for a reading are, channel by channel, those the
\* channel raises for its own value alone, plus the sensor-disconnect alert
\* if that rule applies: their number is the sum, and no alert of a channel
\* is suppressed or added because another rule fired in the same call
C12_ChannelsIndependent ==
    Analyzed =>
        LET r == last.arg[2]
        IN  /\ \A key \in Channels :
                   Projection(OfVital(last.ret, key)) = Independent(r, key)
            /\ Projection(OfVital(last.ret, "sensor")) = IndependentSensor(r)
            /\ \A i \in 1..Len(last.ret) : last.ret[i].vital_type \in Channels \cup { "sensor" }
            /\ Len(last.ret) = Len(Independent(r, "heart_rate")) + Len(Independent(r, "spo2"))
                               + Len(Independent(r, "blood_pressure"))
                               + Len(Independent(r, "temperature"))
                               + Len(Independent(r, "respiratory_rate"))
                               + Len(IndependentSensor(r))

\* C12 witness: five channels and the sensor rule fired in one call
C12_Witness ==
    /\ Analyzed
    /\ Len(last.ret) = 6
    /\ OfType(last.ret, SENSOR_DISCONNECT) # {}
    /\ \A key \in Channels : Len(Independent(last.arg[2], key)) = 1

\* the reading r with every field under its camelCase key
CamelKey(k) ==
    CASE k = "heart_rate" -> "heartRate"
      [] k = "spo2" -> "spO2"
      [] k = "blood_pressure" -> "bloodPressure"
      [] k = "respiratory_rate" -> "respiratory"
      [] OTHER -> k
Camel(r) ==
    [ c \in { CamelKey(k) : k \in DOMAIN r } |->
        r[CHOOSE k \in DOMAIN r : CamelKey(k) = c] ]

\* C13: a reading gives the same kinds, severities, values and thresholds
\* whether its fields are under the snake_case or under the camelCase keys
C13_NamingConventions ==
    Analyzed =>
        /\ ~Classified(Camel(last.arg[2])).err
        /\ Projection(Classified(Camel(last.arg[2])).alerts) = Projection(last.ret)

\* the reading r without the values that are null or of the wrong type
WellTyped(r) ==
    LET ok(k) == IF k = "blood_pressure"
                 THEN r[k].t = "dict" /\ \A f \in DOMAIN r[k].v : r[k].v[f].t = "num"
                 ELSE r[k].t = "num"
    IN  [ k \in { f \in DOMAIN r : ok(f) } |-> r[k] ]

\* C14: the call never raises; for a reading with fields missing, null or of
\* the wrong type it returns the alerts of the reading with these fields at
\* their defaults, and the store keeps the cap and the uniqueness of its ids
C14_MalformedDefaulted ==
    last.op = "analyze" =>
        /\ ~last.raised
        /\ Projection(last.ret) = Projection(Classified(WellTyped(last.arg[2])).alerts)
        /\ \A i \in 1..Len(active_alerts) : Len(active_alerts[i].alerts) <= HistoryCap
        /\ Cardinality(LiveIds) = Len(Live)

(***************************************************************************)
(* Properties of the two writes of an alert (SpecSinks).                   *)
(***************************************************************************)
SavedIds == { collection[i].id : i \in 1..Len(collection) }
LoggedIds == { es_index[i] : i \in 1..Len(es_index) }

\* C15: every alert handed to the two writes, by the polling task or by the
\* analyze request, is logged if the Elasticsearch server answers and saved
\* if the MongoDB server answers, each whatever becomes of the other write;
\* an analyze request hands over every alert it returns
C15_WritesIndependent ==
    /\ \A i \in 1..Len(writes) :
           /\ writes[i].es_up => writes[i].id \in LoggedIds
           /\ writes[i].mongo_up => writes[i].id \in SavedIds
    /\ (last.op = "analyze" /\ ~last.raised) => IdsOf(last.ret) = [ i \in 1..Len(writes) |-> writes[i].id ]
    /\ (last.op = "poll" /\ poll.pc = "saving") => Len(writes) = 1

\* C15 witness: of the two alerts of one batch, the first was logged and not
\* saved, the second, just written, was saved and not logged
C15_Witness ==
    /\ last.op = "poll"
    /\ \E i \in 1..Len(writes) :
           /\ ~writes[i].es_up /\ writes[i].mongo_up
           /\ writes[i].id \in SavedIds \ LoggedIds
    /\ LoggedIds \ SavedIds # {}

\* h is the history kept when alerts are put in front of the history old
KeptIn(old, h) ==
    /\ Len(old) <= Len(h)
    /\ SubSeq(h, Len(h) - Len(old) + 1, Len(h)) = old

\* C16: the alerts an analysis produced are in the history of their subject
\* before any of them is written and whatever becomes of the writes: those
\* an analyze request returned, the one the task has just written and those
\* it has still to write; and no step of the writes takes an alert out of a
\* history that is below the cap, or changes one
C16_AccumulateNotGated ==
    [][ LET live == Live'
        IN  /\ (last'.op = "analyze" /\ ~last'.raised) =>
                  \A i \in 1..Len(last'.ret) : \E j \in 1..Len(live) : live[j] = last'.ret[i]
            /\ last'.op = "poll" =>
                  /\ \A i \in 1..Len(writes') : \E j \in 1..Len(live) : live[j].id = writes'[i].id
                  /\ \A i \in 1..Len(poll'.alerts) : \E j \in 1..Len(live) : live[j] = poll'.alerts[i]
            /\ \A i \in 1..Len(active_alerts) :
                  /\ active_alerts'[i].key = active_alerts[i].key
                  /\ Len(active_alerts'[i].alerts) < HistoryCap =>
                         KeptIn(active_alerts[i].alerts, active_alerts'[i].alerts)
      ]_vars

\* C16 witness: the task has written an alert that neither server took, and
\* the alert is in the live store
C16_Witness ==
    /\ last.op = "poll"
    /\ \E i \in 1..Len(writes) :
           /\ ~writes[i].es_up /\ ~writes[i].mongo_up
           /\ writes[i].id \in LiveIds \ (SavedIds \cup LoggedIds)

(***************************************************************************)
(* Properties of the polling task (SpecPoller).                            *)
(***************************************************************************)
Suspended == { "fetching", "saving", "sleeping" }
Stopping == { "stopping", "stopped" }

\* C17: when the fetch of a cycle fails, by an exception or by a status
\* other than 200, the task goes to sleep without another fetch and leaves
\* the live store, the counter, the collection and the index as they were;
\* a fetch is only ever issued by a task just created or by one whose sleep
\* of five seconds is over, and it counts as the next cycle
C17_FailedFetchSkipsCycle ==
    [][ /\ (poll.pc = "fetching" /\ last'.op = "poll" /\ last'.arg \in { "error", "503" }) =>
              /\ active_alerts' = active_alerts
              /\ alert_counter' = alert_counter
              /\ collection' = collection
              /\ es_index' = es_index
              /\ poll'.cycles = poll.cycles
              /\ poll'.pc = "sleeping"
              /\ poll'.wake = now' + Ticks(poll_interval)
        /\ poll'.cycles # poll.cycles =>
              /\ poll'.cycles = poll.cycles + 1
              /\ poll'.pc = "fetching"
              /\ poll.pc \in { "created", "sleeping" }
              /\ now' >= poll.wake
        /\ (poll'.pc = "fetching" /\ poll.pc # "fetching") => poll'.cycles = poll.cycles + 1
      ]_vars

\* C17 witness: the fetch of the second cycle was answered with status 503,
\* after a first cycle that saved an alert
C17_Witness ==
    /\ last.op = "poll"
    /\ last.arg = "503"
    /\ poll.pc = "sleeping"
    /\ poll.cycles = 2
    /\ Len(collection) > NumSeeds

\* C18: as long as the service is not shut down, a cycle of the task,
\* wherever it stands and whatever failed in it, is followed by the fetch
\* of the next cycle (up to the number of cycles the model follows)
C18_PollerContinues ==
    \A n \in 1..(MaxCycles - 1) :
        (phase = "running" /\ poll.pc \in Suspended /\ poll.cycles = n)
            ~> ((poll.pc = "fetching" /\ poll.cycles = n + 1) \/ phase # "running")

\* C18 witness: the second fetch is under way after a cycle in which the
\* save of the one alert of P001 failed and the analysis of S1 raised
C18_Witness ==
    /\ phase = "running"
    /\ poll.pc = "fetching"
    /\ poll.cycles = 2
    /\ Len(GetPatientAlerts(active_alerts, P001)) = SeedsPerPatient + 1
    /\ ~Has(active_alerts, S1)
    /\ Len(collection) = NumSeeds
    /\ Len(es_index) = 1

\* C19: once the shutdown has cancelled the task, the task issues no fetch,
\* accumulates nothing and writes to neither server, it ends where it was
\* suspended and is not started again; the shutdown completes; and the live
\* store keeps the cap and the uniqueness of its ids
C19_ShutdownStopsPoller ==
    /\ [][ (phase \in Stopping) =>
              /\ phase' \in Stopping
              /\ active_alerts' = active_alerts
              /\ alert_counter' = alert_counter
              /\ collection' = collection
              /\ es_index' = es_index
              /\ poll'.cycles = poll.cycles
              /\ poll'.pc \in { poll.pc, "cancelled" }
              /\ \A i \in 1..Len(active_alerts') : Len(active_alerts'[i].alerts) <= HistoryCap
              /\ Cardinality(LiveIds') = Len(Live') ]_vars
    /\ (phase = "stopping") ~> (phase = "stopped" /\ poll.pc = "cancelled")

\* C19 witness: the shutdown is complete, and the cancellation reached the
\* task between the two saves of a batch: two alerts were made, one written
C19_Witness ==
    /\ phase = "stopped"
    /\ poll.pc = "cancelled"
    /\ alert_counter = NumSeeds + 2
    /\ Len(es_index) = 1

(***************************************************************************)
(* Properties of the task and the requests together (SpecConcurrent).      *)
(***************************************************************************)
\* C20: whichever way the steps of the polling task and the requests
\* interleave, every step takes each history through one whole operation
\* or leaves it alone: a clear of its subject empties it; an acknowledge
\* sets the flag of the one alert with the id; an analysis, of the task or
\* of a request, puts its whole batch, in the order produced, in front of
\* the whole history (cut at the cap); nothing else changes a history, so
\* a batch stays until a clear or the cap removes it; and a query returns
\* the history as it stands between two such steps
C20_NoLostUpdates ==
    [][ /\ \A p \in Keys(active_alerts) \cup Keys(active_alerts') :
              LET H  == GetPatientAlerts(active_alerts, p)
                  H2 == GetPatientAlerts(active_alerts', p)
                  fresh == Len(created') - Len(created)
              IN  \/ H2 = H /\ (Has(active_alerts', p) <=> Has(active_alerts, p))
                  \/ /\ last'.op = "clear" /\ last'.arg = p
                     /\ ~Has(active_alerts', p)
                  \/ /\ last'.op = "acknowledge" /\ last'.ret = TRUE
                     /\ Len(H2) = Len(H)
                     /\ \A j \in 1..Len(H) :
                            H2[j] = IF H[j].id = last'.arg
                                    THEN [H[j] EXCEPT !.acknowledged = TRUE] ELSE H[j]
                  \/ /\ last'.op \in { "analyze", "poll" }
                     /\ fresh > 0
                     /\ fresh <= Len(H2)
                     /\ IdsOf(SubSeq(H2, 1, fresh))
                            = SubSeq(created', Len(created) + 1, Len(created'))
                     /\ H2 = Take(SubSeq(H2, 1, fresh) \o H, HistoryCap)
        /\ last'.op = "query" =>
              /\ active_alerts' = active_alerts
              /\ last'.ret = DumpAll(GetPatientAlerts(active_alerts, last'.arg[1]))
      ]_vars

\* C20 witness: the task has written the second alert of a batch of P001
\* after a request cleared P001 between its two saves; P001 stays cleared
C20_Witness ==
    /\ last.op = "poll"
    /\ last.arg = "saved"
    /\ Len(writes) = 1
    /\ Len(es_index) = 2
    /\ alert_counter = NumSeeds + 2
    /\ ~Has(active_alerts, P001)

\* C26: in every step of a cycle of the polling task that is not cancelled,
\* each alert that the step adds to the live store, and each alert the task
\* still had to write, is written in this step or is still to be written; an
\* alert written is submitted to both sinks (it is in the analytics index and
\* in the durable collection if the server concerned answers); and the cycle
\* ends, with or without an exception, with nothing left to write.
C26_CycleWritesAllItAdds ==
    [][ (last'.op = "poll" /\ last'.arg \notin { "fetch", "cancelled" }) =>
          LET live == Live'
              added == { live[i].id : i \in 1..Len(live) } \ LiveIds
              pending == { poll.alerts[i].id : i \in 1..Len(poll.alerts) }
              pendingAfter == { poll'.alerts[i].id : i \in 1..Len(poll'.alerts) }
              written == { writes'[i].id : i \in 1..Len(writes') }
          IN  /\ (added \cup pending) \subseteq (written \cup pendingAfter)
              /\ \A i \in 1..Len(writes') :
                    /\ writes'[i].es_up =>
                          \E k \in 1..Len(es_index') : es_index'[k] = writes'[i].id
                    /\ writes'[i].mongo_up =>
                          \E k \in 1..Len(collection') : collection'[k].id = writes'[i].id
              /\ poll'.pc = "sleeping" => pendingAfter = {}
      ]_vars

\* C26 witness: a cycle that fetched two subjects, wrote the alert of the
\* first one and ended with the exception raised by the analysis of the
\* second: every alert added since the seeds is in the analytics index
C26_Witness ==
    /\ last.op = "poll"
    /\ last.raised
    /\ poll.pc = "sleeping"
    /\ alert_counter > NumSeeds
    /\ \E i \in 1..Len(Live) : Live[i].id \in LoggedIds
    /\ \A i \in 1..Len(Live) :
           Live[i].id \notin { created[k] : k \in 1..NumSeeds } => Live[i].id \in LoggedIds

(***************************************************************************)
(* Properties of the service (Spec, SpecRestart).                          *)
(***************************************************************************)
\* C3: alert ids are globally unique: two distinct alerts recorded in the
\* durable store never carry the same id, also when one was created before
\* and the other after a restart of the process on the same date
C3_DurableIdsUnique ==
    \A i, j \in 1..Len(collection) : collection[i].id = collection[j].id => i = j

Queried(source) == last.op = "query" /\ last.arg[2] = source
LiveOf(p) == DumpAll(GetPatientAlerts(active_alerts, p))
DurableOf(p) ==
    IF db_set /\ mongo_up
    THEN SelectSeqIdx(collection, { i \in 1..Len(collection) : collection[i].patient_id = p })
    ELSE << >>
Min(a, b) == IF a < b THEN a ELSE b

\* C7: a query with source "both" returns each distinct alert id at most
\* once, the live copy where there is one, ordered by timestamp with the most
\* recent first, and truncated to the limit: its length is the smaller of the
\* limit and the number of distinct ids of the live and the durable alerts
C7_MergedQuery ==
    Queried("both") =>
        LET ret == last.ret
            limit == last.arg[3]
            live == LiveOf(last.arg[1])
            durable == DurableOf(last.arg[1])
            ids == Range(IdsOf(live)) \cup Range(IdsOf(durable))
        IN  /\ \A i, j \in 1..Len(ret) : ret[i].id = ret[j].id => i = j
            /\ \A i \in 1..Len(ret) :
                   IF ret[i].id \in Range(IdsOf(live))
                   THEN ret[i] \in Range(live)
                   ELSE ret[i] \in Range(durable)
            /\ \A i, j \in 1..Len(ret) : i < j => ~StrLess(ret[i].timestamp, ret[j].timestamp)
            /\ Len(ret) = Min(limit, Cardinality(ids))
            /\ \A x \in Range(live) \cup Range(durable) :
                   x.id \notin Range(IdsOf(ret)) =>
                       \A i \in 1..Len(ret) : ~StrLess(ret[i].timestamp, x.timestamp)

\* a merged query with limit 10 for a patient that has one alert both live and
\* durable and another alert only in the durable store: both are returned
C7_Witness ==
    /\ Queried("both")
    /\ last.arg[3] = 10
    /\ \E a \in Range(last.ret) :
           /\ a.doc_id = NoOid
           /\ a.id \in Range(IdsOf(DurableOf(last.arg[1])))
    /\ \E a \in Range(last.ret) :
           /\ a.doc_id # NoOid
           /\ a.id \notin Range(IdsOf(LiveOf(last.arg[1])))
    /\ Len(last.ret) = Cardinality(Range(IdsOf(DurableOf(last.arg[1]))))

\* the first entry of each id in the sequence s
FirstOfEachId(s) ==
    SelectSeqIdx(s, { i \in 1..Len(s) : \A j \in 1..(i - 1) : s[j].id # s[i].id })

\* C25: a merged query with limit L returns the first L entries of the union
\* of the whole live history and the whole durable history of the subject,
\* one entry per id, most recent first: it has min(L, number of distinct ids)
\* entries, each the entry that stands for its id in the union, and no alert
\* of the union that is left out is more recent than an alert returned.
C25_FirstOfFullUnion ==
    Queried("both") =>
        LET ret == last.ret
            limit == last.arg[3]
            union == FirstOfEachId(LiveOf(last.arg[1]) \o SortDesc(DurableOf(last.arg[1])))
        IN  /\ Len(ret) = Min(limit, Len(union))
            /\ \A i \in 1..Len(ret) :
                   \E k \in 1..Len(union) :
                       /\ union[k].id = ret[i].id
                       /\ union[k].timestamp = ret[i].timestamp
            /\ \A k \in 1..Len(union) :
                   (\A i \in 1..Len(ret) : ret[i].id # union[k].id) =>
                       \A i \in 1..Len(ret) : ~StrLess(ret[i].timestamp, union[k].timestamp)

\* C27: after an acknowledge request that succeeded while the durable store
\* was connected and reachable, every durable record of that alert is marked
\* acknowledged and carries its acknowledgment time.
C27_AcknowledgeBothStores ==
    (last.op = "acknowledge" /\ last.ret = TRUE /\ db_set /\ mongo_up) =>
        \A i \in 1..Len(collection) :
            collection[i].id = last.arg =>
                /\ collection[i].acknowledged
                /\ collection[i].acknowledged_at # Unset

\* C28: persisting the seed alerts at start-up inserts no record whose alert
\* id the durable store already holds, and inserts no id twice.
C28_SeedsSavedIfAbsent ==
    [][ last'.op = "startup" =>
          \A i \in (Len(collection) + 1)..Len(collection') :
              \A j \in 1..(i - 1) : collection'[j].id # collection'[i].id
      ]_vars

(***************************************************************************)
(* Properties of the durable-store client (SpecStore).                     *)
(***************************************************************************)
StoreOps == { "save", "find", "acknowledge_alert", "merged" }

\* the call recorded in last' found the store unavailable: no database handle
\* (never connected), or a request that failed (server down since before or
\* after the connect, or a closed client that does not reopen)
Unavailable == ~db_set \/ ~mongo_up \/ (~client_set /\ ~last'.arg[Len(last'.arg)])

\* C21: when the store is unavailable no operation raises: save returns None
\* and stores nothing, the durable query returns the empty list, acknowledge
\* returns False and changes no document, and the merged query returns the
\* live entries only (the most recent ones up to the limit, newest first).
C21_DegradesWhenUnavailable ==
    [][ (last'.op \in StoreOps) =>
          /\ ~last'.raised
          /\ Unavailable =>
                /\ collection' = collection
                /\ next_oid' = next_oid
                /\ last'.op = "save" => last'.ret = NoOid
                /\ last'.op = "find" => last'.ret = << >>
                /\ last'.op = "acknowledge_alert" => last'.ret = FALSE
                /\ last'.op = "merged" =>
                      LET live == LiveOf(last'.arg[1])
                          ret == last'.ret
                      IN  /\ Range(ret) \subseteq Range(live)
                          /\ Len(ret) = Min(last'.arg[2], Len(live))
                          /\ \A i, j \in 1..Len(ret) :
                                i < j => /\ ret[i] # ret[j]
                                         /\ ~StrLess(ret[i].timestamp, ret[j].timestamp)
                          /\ \A x \in Range(live) \ Range(ret) :
                                \A i \in 1..Len(ret) : ~StrLess(ret[i].timestamp, x.timestamp)
      ]_vars

\* C21 witness: a merged query answered from the live entries while the
\* durable store holds documents of the subject that it cannot give, after a
\* connect that failed or a server that went down
C21_Witness ==
    /\ last.op = "merged"
    /\ last.arg[2] = 10
    /\ db_set /\ client_set /\ ~mongo_up
    /\ \E i \in 1..Len(collection) : collection[i].patient_id = last.arg[1]
    /\ last.ret = LiveOf(last.arg[1])
    /\ last.ret # << >>

\* C29: is_connected returns True exactly when the most recent connect
\* succeeded and no disconnect was made since, and while it returns False
\* save, query and acknowledge take the unavailable path: they return None,
\* the empty list and False, and the collection is left as it is.
C29_IsConnectedReal ==
    [][ /\ last'.op = "is_connected" => (last'.ret <=> phase = "connected")
        /\ (last'.op \in { "save", "find", "acknowledge_alert" } /\ ~IsConnected) =>
              /\ collection' = collection
              /\ last'.op = "save" => last'.ret = NoOid
              /\ last'.op = "find" => last'.ret = << >>
              /\ last'.op = "acknowledge_alert" => last'.ret = FALSE
      ]_vars

====
